---- MODULE Spec2Model ----
(***************************************************************************)
(* sno: the Generator state machine (generator.go), its identifiers        *)
(* (id.go) and the snapshot/restore path, at the granularity of the        *)
(* atomic operations of Generator.New and Generator.seqOverflowLoop.       *)
(*                                                                         *)
(* uint32 values are held as their two's complement residue in             *)
(* [-2^31, 2^31): MaxUint32 is -1, as in `^uint32(0)` of the source.       *)
(* Wall clock times are counts of 4msec time units.                        *)
(***************************************************************************)
EXTENDS Integers, Sequences, FiniteSets, TLC

\* ------------------------------------------------------------------------
\* Bounds of the model
\* ------------------------------------------------------------------------
NumCallers == 2     \* goroutines calling New concurrently
MaxCalls == 3       \* New calls started in one behaviour
MaxClock == 2       \* highest wall clock reading
MaxRegress == 1     \* backward steps of the wall clock in one behaviour
MonoCalls == 6      \* New calls of a single caller, monotone clock
MonoClock == 2      \* highest wall clock reading, monotone clock
SoloCalls == 2      \* New calls of a single caller
SoloClock == 2      \* highest wall clock reading with a single caller
SoloRegress == 1    \* backward steps of the clock with a single caller
RestartCalls == 3   \* New calls before and after a restart
RestartClock == 2   \* highest wall clock reading around a restart
RestartRegress == 1 \* backward steps of the clock around a restart
EpochCalls == 3     \* New calls of a single caller, late start times
EpochSpan == 1      \* time units the clock advances, late start times
LiveCallers == 1    \* goroutines calling New, liveness of the overflow stall
LiveCalls == 1      \* New calls started, liveness of the overflow stall
LiveClock == 2      \* highest wall clock reading, liveness of the overflow stall
RestoreCalls == 2   \* NewGenerator calls watched when restoring
RestoreClock == 3   \* highest clock reading at which a generator is restored
ConstructCalls == 2 \* NewGenerator calls in one behaviour
PoolCalls == 2 \* NewGenerator calls on small pools in one behaviour
PoolSpan == 6 \* largest SequenceMax - SequenceMin of those pools
AllocCallers == 2   \* goroutines calling genPartition concurrently
AllocCalls == 4     \* genPartition calls in one behaviour
ByteSamples == 6    \* values a byte of an identifier is drawn from
DigitSamples == 4   \* digits a character of a text is drawn from
CodecCalls == 2     \* codec calls in one behaviour
SortSamples == 3    \* values the halves of the identifier compared with are drawn from
StallCallers == 2   \* goroutines calling New, bookkeeping of the overflow stall
StallCalls == 2     \* New calls started, bookkeeping of the overflow stall
StallClock == 2     \* highest wall clock reading, bookkeeping of the overflow stall
AccessCallers == 2  \* goroutines calling New while the accessors are read
AccessCalls == 2    \* New calls started while the accessors are read
AccessClock == 2    \* highest wall clock reading while the accessors are read
AccessOps == 1      \* accessor calls among concurrent New calls
DrainCalls == 7     \* New calls of one goroutine, overflow drained and met again
DrainClock == 2     \* highest wall clock reading for that goroutine
DrainFold == 5      \* ticks of one watcher counted before the count is folded
NotifyCallers == 1  \* goroutines calling New, notifications of the overflow
NotifyCalls == 2    \* New calls started, notifications of the overflow
NotifyClock == 2    \* highest wall clock reading, notifications of the overflow
NotifyFold == 9     \* ticks of one watcher counted before the count is folded
SharedCallers == 2  \* goroutines sharing one generator on a forward-only clock
SharedCalls == 3    \* New calls started by them
AheadCalls == 2     \* New calls started on a generator restored from a used one
CrowdCalls == 7     \* New calls started by goroutines that use up a pool
CrowdClock == 1     \* highest wall clock reading while they do
DeepCalls == 2      \* New calls of a single caller around a deep regression
DeepClock == 3      \* highest wall clock reading around a deep regression
DeepRegress == 1    \* backward steps of the clock around a deep regression
SharedClock == 3    \* highest wall clock reading they see
HeldCalls == 7      \* New calls of the goroutine that also reads the accessors
HeldClock == 2      \* highest wall clock reading for that goroutine
HeldOps == 3        \* accessor calls of that goroutine
AtCalls == 8        \* sequential NewWithTime calls
StaticCalls == 2    \* goroutines calling NewWithTime once each, concurrently
BothCalls == 2      \* NewWithTime calls of one goroutine among calls of New
StaticWrap == 8     \* seqStatic wraps here where its wrap-around is followed

\* ------------------------------------------------------------------------
\* Program constants
\* ------------------------------------------------------------------------
MaxSequence == 65535
minSequencePoolSize == 4
TimeUnit == 4000000
MaxPartition == 65535
SizeBinary == 10
SizeEncoded == 16

Callers == 1..NumCallers
\* Goroutines that call NewWithTime only.
AtCallers == (NumCallers + 1)..(NumCallers + StaticCalls)
Metas == {0, 255}
NoCaller == 0

\* ------------------------------------------------------------------------
\* Fixed-width arithmetic
\* ------------------------------------------------------------------------
\* uint16 truncation.
Uint16(x) == x % 65536

\* byte(x) conversion.
Byte(x) == x % 256

\* Mutation: the add that leaves the value as it was.
AddUint32_Stuck(x) == x

\* atomic.AddUint32(addr, 1): the new value, wrapping at 2^32.
AddUint32(x) == IF x = 2147483647 THEN -2147483647 - 1 ELSE x + 1

\* int64 division a / b of Go for b > 0: the quotient is truncated toward zero.
quo(a, b) == IF a >= 0 THEN a \div b ELSE -((-a) \div b)

\* Unsigned comparison a > b of two uint32 values.
Uint32Gt(a, b) ==
    IF (a < 0) = (b < 0) THEN a > b ELSE a < 0

\* ------------------------------------------------------------------------
\* Identifiers (id.go); id[i+1] here is id[i] of the source
\* ------------------------------------------------------------------------
ZeroID == <<0, 0, 0, 0, 0, 0, 0, 0, 0, 0>>

\* Mutation: the two middle bytes of the timestamp are not written.
applyTimestamp_Narrow(id, units) ==
    [id EXCEPT ![1] = Byte((units \div 32768) \div 65536),
               ![4] = Byte(units \div 128),
               ![5] = Byte(units % 128) * 2]

\* byte(units << 1) is written as byte(units mod 128) * 2, the same value.
applyTimestamp(id, units) ==
    [id EXCEPT ![1] = Byte((units \div 32768) \div 65536),
               ![2] = Byte((units \div 32768) \div 256),
               ![3] = Byte(units \div 32768),
               ![4] = Byte(units \div 128),
               ![5] = Byte(units % 128) * 2]

\* Mutation: the tick-tock bit is never written.
applyTickTock_Dropped(id, counter) == id

\* id[4] |= byte(counter & 1)
applyTickTock(id, counter) ==
    [id EXCEPT ![5] = IF id[5] % 2 = 1 THEN id[5] ELSE id[5] + (counter % 2)]

applyPartition(id, partition, meta) ==
    [id EXCEPT ![6] = meta, ![7] = partition[1], ![8] = partition[2]]

applySequence(id, seq) ==
    [id EXCEPT ![9] = Byte(seq \div 256), ![10] = Byte(seq)]

\* The 39-bit count of time units: BigEndian.Uint64(id[:]) >> 25.
IDUnits(id) ==
    (id[5] \div 2) + 128 * (id[4] + 256 * (id[3] + 256 * (id[2] + 256 * id[1])))

\* The tick-tock bit: id[4] & 1.
IDTickTock(id) == id[5] % 2

\* The 40-bit timestamp block (time units and tick-tock), bytes 0..4.
IDBlock(id) == SubSeq(id, 1, 5)

IDMeta(id) == id[6]

IDPartition(id) == <<id[7], id[8]>>

IDSequence(id) == id[9] * 256 + id[10]

RECURSIVE bytesCompare(_, _)
\* bytes.Compare: -1, 0 or 1.
bytesCompare(a, b) ==
    IF a = <<>> /\ b = <<>> THEN 0
    ELSE IF a = <<>> THEN -1
    ELSE IF b = <<>> THEN 1
    ELSE IF Head(a) < Head(b) THEN -1
    ELSE IF Head(a) > Head(b) THEN 1
    ELSE bytesCompare(Tail(a), Tail(b))

IDCompare(id, that) == bytesCompare(id, that)

\* ------------------------------------------------------------------------
\* The text codec (internal/encoding.go) and its callers (id.go, global.go)
\* ------------------------------------------------------------------------
\* x >> k and x << k on a byte.
shr(x, k) == x \div (2 ^ k)
shl(x, k) == (x * (2 ^ k)) % 256

RECURSIVE or(_, _)
\* a | b
or(a, b) ==
    IF a = 0 THEN b
    ELSE IF b = 0 THEN a
    ELSE 2 * or(a \div 2, b \div 2) + (IF a % 2 = 1 \/ b % 2 = 1 THEN 1 ELSE 0)

RECURSIVE and(_, _)
\* a & b
and(a, b) ==
    IF a = 0 \/ b = 0 THEN 0
    ELSE 2 * and(a \div 2, b \div 2) + (IF a % 2 = 1 /\ b % 2 = 1 THEN 1 ELSE 0)

\* Mutation: the alphabet of base32, "abcdefghijklmnopqrstuvwxyz234567".
enc_Base32 == [i \in 1..32 |-> IF i <= 26 THEN 96 + i ELSE 23 + i]

\* The alphabet "23456789abcdefghijklmnopqrstuvwx", as bytes; enc[i + 1] is
\* the character of the digit i.
enc == [i \in 1..32 |-> IF i <= 8 THEN 49 + i ELSE 88 + i]

\* The decoding table as init() fills it: 0xFF, and i at enc[i].
dec ==
    [b \in 0..255 |->
        IF \E i \in 1..32 : enc[i] = b
        THEN (CHOOSE i \in 1..32 : enc[i] = b) - 1
        ELSE 255]

\* Mutation: the last character is left at its zero value.
Encode_Short(src) ==
    LET s(i) == src[i + 1]
        e(d) == enc[d + 1]
    IN  << e(shr(s(0), 3)),
           e(and(or(shr(s(1), 6), shl(s(0), 2)), 31)),
           e(and(shr(s(1), 1), 31)),
           e(and(or(shr(s(2), 4), shl(s(1), 4)), 31)),
           e(and(or(shr(s(3), 7), shl(s(2), 1)), 31)),
           e(and(shr(s(3), 2), 31)),
           e(and(or(shr(s(4), 5), shl(s(3), 3)), 31)),
           e(and(s(4), 31)),
           e(shr(s(5), 3)),
           e(and(or(shr(s(6), 6), shl(s(5), 2)), 31)),
           e(and(shr(s(6), 1), 31)),
           e(and(or(shr(s(7), 4), shl(s(6), 4)), 31)),
           e(and(or(shr(s(8), 7), shl(s(7), 1)), 31)),
           e(and(shr(s(8), 2), 31)),
           e(and(or(shr(s(9), 5), shl(s(8), 3)), 31)),
           0 >>

\* Encode: dst[0] to dst[15].
Encode(src) ==
    LET s(i) == src[i + 1]
        e(d) == enc[d + 1]
    IN  << e(shr(s(0), 3)),
           e(and(or(shr(s(1), 6), shl(s(0), 2)), 31)),
           e(and(shr(s(1), 1), 31)),
           e(and(or(shr(s(2), 4), shl(s(1), 4)), 31)),
           e(and(or(shr(s(3), 7), shl(s(2), 1)), 31)),
           e(and(shr(s(3), 2), 31)),
           e(and(or(shr(s(4), 5), shl(s(3), 3)), 31)),
           e(and(s(4), 31)),
           e(shr(s(5), 3)),
           e(and(or(shr(s(6), 6), shl(s(5), 2)), 31)),
           e(and(shr(s(6), 1), 31)),
           e(and(or(shr(s(7), 4), shl(s(6), 4)), 31)),
           e(and(or(shr(s(8), 7), shl(s(7), 1)), 31)),
           e(and(shr(s(8), 2), 31)),
           e(and(or(shr(s(9), 5), shl(s(8), 3)), 31)),
           e(and(s(9), 31)) >>

\* Mutation: dst[9] is taken from the last character alone.
Decode_Low(src) ==
    LET d(i) == dec[src[i + 1]]
    IN  << or(shl(d(0), 3), shr(d(1), 2)),
           or(or(shl(d(1), 6), shl(d(2), 1)), shr(d(3), 4)),
           or(shl(d(3), 4), shr(d(4), 1)),
           or(or(shl(d(4), 7), shl(d(5), 2)), shr(d(6), 3)),
           or(shl(d(6), 5), d(7)),
           or(shl(d(8), 3), shr(d(9), 2)),
           or(or(shl(d(9), 6), shl(d(10), 1)), shr(d(11), 4)),
           or(shl(d(11), 4), shr(d(12), 1)),
           or(or(shl(d(12), 7), shl(d(13), 2)), shr(d(14), 3)),
           d(15) >>

\* Decode, for a src of at least 16 bytes: dst[0] to dst[9].
Decode(src) ==
    LET d(i) == dec[src[i + 1]]
    IN  << or(shl(d(0), 3), shr(d(1), 2)),
           or(or(shl(d(1), 6), shl(d(2), 1)), shr(d(3), 4)),
           or(shl(d(3), 4), shr(d(4), 1)),
           or(or(shl(d(4), 7), shl(d(5), 2)), shr(d(6), 3)),
           or(shl(d(6), 5), d(7)),
           or(shl(d(8), 3), shr(d(9), 2)),
           or(or(shl(d(9), 6), shl(d(10), 1)), shr(d(11), 4)),
           or(shl(d(11), 4), shr(d(12), 1)),
           or(or(shl(d(12), 7), shl(d(13), 2)), shr(d(14), 3)),
           or(shl(d(14), 5), d(15)) >>

\* The errors, by their messages (errors.go); errNone is the nil error.
errNone == "nil"
errInvalidDataSizeMsg == "unrecognized data size"

\* Mutation: the receiver is zeroed when the size is wrong.
UnmarshalText_Zeroed(id, src) ==
    IF Len(src) # SizeEncoded
    THEN [id |-> ZeroID, err |-> errInvalidDataSizeMsg, Size |-> Len(src)]
    ELSE [id |-> Decode(src), err |-> errNone, Size |-> 0]

\* ID.UnmarshalText: the receiver afterwards and the error.
UnmarshalText(id, src) ==
    IF Len(src) # SizeEncoded
    THEN [id |-> id, err |-> errInvalidDataSizeMsg, Size |-> Len(src)]
    ELSE [id |-> Decode(src), err |-> errNone, Size |-> 0]

\* FromEncodedBytes: UnmarshalText into the zero-valued result.
FromEncodedBytes(src) == UnmarshalText(ZeroID, src)

\* FromEncodedString.
FromEncodedString(src) ==
    IF Len(src) # SizeEncoded
    THEN [id |-> ZeroID, err |-> errInvalidDataSizeMsg, Size |-> Len(src)]
    ELSE [id |-> Decode(src), err |-> errNone, Size |-> 0]

\* ------------------------------------------------------------------------
\* Construction (generator.go: NewGenerator, sanitizeSnapshotBounds)
\* ------------------------------------------------------------------------
errSequenceBoundsIdenticalMsg == "sequence bounds are identical"
errSequencePoolTooSmallMsg == "sequence pool too small"
errSequenceUnderflowsBound == "sequence underflows the lower bound"
errPartitionPoolExhaustedMsg == "partition pool exhausted"

\* No error, as an InvalidSequenceBoundsError of zero values.
NoError == [Msg |-> errNone, Cur |-> 0, Min |-> 0, Max |-> 0]

\* invalidSequenceBounds(s, msg): the error carries the snapshot's fields as
\* they are when the check fails.
invalidSequenceBounds(s, msg) ==
    [Msg |-> msg, Cur |-> s.Sequence, Min |-> s.SequenceMin,
     Max |-> s.SequenceMax]

\* genPartition (partition.go): the counter after atomic.AddUint32, the
\* error, and the partition seed + n in its public representation.
genPartition(partitions, seed) ==
    LET n == AddUint32(partitions)
        u == Uint16(seed + Uint16(n))
    IN  [partitions |-> n,
         err |-> IF Uint32Gt(n, MaxPartition)
                 THEN errPartitionPoolExhaustedMsg ELSE errNone,
         partition |-> <<u \div 256, Byte(u)>>]

\* genPartition after its atomic.AddUint32 returned n: what it returns.
partitionFor(n, seed) == genPartition(n - 1, seed)

\* Mutation: the snapshot is sanitized in place, through the pointer.
callerRecord_Shared(s0, sanitized) == sanitized

\* newGeneratorFromSnapshot(*snapshot, c) takes the snapshot by value: s0 is
\* the caller's record, sanitized the copy as sanitizeSnapshotBounds leaves
\* it. The caller's record after the call.
callerRecord(s0, sanitized) == s0

\* Step 1 of sanitizeSnapshotBounds: the zero SequenceMax default.
sanitizeMax(s) ==
    IF s.SequenceMax = 0 /\ s.SequenceMin # MaxSequence
    THEN [s EXCEPT !.SequenceMax = MaxSequence]
    ELSE s

\* Mutation: the bounds are left in the order given.
sanitizeOrder_Kept(s) == s

\* Step 2: bounds given in either order.
sanitizeOrder(s) ==
    IF s.SequenceMax < s.SequenceMin
    THEN [s EXCEPT !.SequenceMin = s.SequenceMax, !.SequenceMax = s.SequenceMin]
    ELSE s

\* Mutation: the test is on the capacity SequenceMax - SequenceMin + 1.
poolTooSmall_Capacity(s) ==
    Uint16(s.SequenceMax - s.SequenceMin + 1) < minSequencePoolSize

\* The pool size test of sanitizeSnapshotBounds (uint16 arithmetic).
poolTooSmall(s) ==
    Uint16(s.SequenceMax - s.SequenceMin - 1) < minSequencePoolSize

\* Mutation: the zero Sequence is left as it is.
sanitizeSequence_Kept(s) == s

\* Step 3: the zero Sequence default.
sanitizeSequence(s) ==
    IF s.Sequence = 0 THEN [s EXCEPT !.Sequence = s.SequenceMin] ELSE s

\* sanitizeSnapshotBounds: the error (errNone when valid) and the snapshot
\* as the function leaves it.
sanitizeSnapshotBounds(s0) ==
    LET s1 == sanitizeMax(s0)
        s2 == sanitizeOrder(s1)
        s3 == sanitizeSequence(s2)
    IN  IF s1.SequenceMin = s1.SequenceMax
        THEN [err |-> errSequenceBoundsIdenticalMsg, s |-> s1]
        ELSE IF poolTooSmall(s2)
        THEN [err |-> errSequencePoolTooSmallMsg, s |-> s2]
        ELSE IF Uint32Gt(s3.SequenceMin, s3.Sequence)
        THEN [err |-> errSequenceUnderflowsBound, s |-> s3]
        ELSE [err |-> errNone, s |-> s3]

\* Mutation: wallHi is always taken from the snapshot.
restoreWallHi_Verbatim(s, wallNow) == s.WallHi
\* Mutation: wallHi is the clock reading whenever the snapshot has a wallSafe.
restoreWallHi_AnySafe(s, wallNow) ==
    IF s.WallSafe # 0 THEN wallNow ELSE s.WallHi
\* The wallHi a restored generator starts with, wallNow being nanotime().
restoreWallHi(s, wallNow) ==
    IF s.WallSafe # 0 /\ s.WallSafe > wallNow THEN wallNow ELSE s.WallHi

\* Mutation: seqStatic starts at SequenceMin instead of one below it.
newGeneratorFromSnapshot_NoOffset(s, c, wallNow) ==
    [partition |-> s.Partition,
     seq |-> s.Sequence,
     seqMin |-> s.SequenceMin,
     seqMax |-> s.SequenceMax,
     seqStatic |-> s.SequenceMin,
     notify |-> {},
     seqOverflowTicker |-> FALSE,
     seqOverflowCount |-> 0,
     seqOverflowChan |-> c,
     drifts |-> s.Drifts,
     wallHi |-> IF s.WallSafe # 0 /\ s.WallSafe > wallNow THEN wallNow ELSE s.WallHi,
     wallSafe |-> s.WallSafe,
     regression |-> NoCaller]

\* newGeneratorFromSnapshot, for a snapshot that passed sanitizeSnapshotBounds.
\* c is TRUE when a notification channel is given.
newGeneratorFromSnapshot(s, c, wallNow) ==
    [partition |-> s.Partition,
     seq |-> s.Sequence,
     seqMin |-> s.SequenceMin,
     seqMax |-> s.SequenceMax,
     seqStatic |-> Uint16(s.SequenceMin - 1),
     notify |-> {},
     seqOverflowTicker |-> FALSE,
     seqOverflowCount |-> 0,
     seqOverflowChan |-> c,
     drifts |-> s.Drifts,
     wallHi |-> restoreWallHi(s, wallNow),
     wallSafe |-> s.WallSafe,
     regression |-> NoCaller]

\* newGeneratorFromDefaults, genPartition() having returned partition.
\* seqStatic is ^uint32(0).
newGeneratorFromDefaults(partition, c) ==
    [partition |-> partition,
     seq |-> 0,
     seqMin |-> 0,
     seqMax |-> MaxSequence,
     seqStatic |-> -1,
     notify |-> {},
     seqOverflowTicker |-> FALSE,
     seqOverflowCount |-> 0,
     seqOverflowChan |-> c,
     drifts |-> 0,
     wallHi |-> 0,
     wallSafe |-> 0,
     regression |-> NoCaller]

\* ------------------------------------------------------------------------
\* State
\* ------------------------------------------------------------------------
VARIABLES
    g,        \* the Generator struct; notify is seqOverflowCond's wait list
    c,        \* per goroutine: position in New and its local variables
    w,        \* the seqOverflowLoop goroutine: position and local variables
    clock,    \* the wall clock, in time units
    log,      \* history: the identifiers returned so far, in order of return
    calls,    \* history: number of New calls started
    regs,     \* history: number of backward steps the clock has made
    lastBack, \* history: the last backward step of the clock and the generator
              \* then; busy: a New call was under way
    snap,     \* the snapshot a stopped generator left behind; at: time of restore
    gen,      \* history: 1 for the first generator, 2 for the restored one
    lim,      \* the limits of the run: calls, clock, regress (never change)
    ctor,     \* the NewGenerator calls: the last one's argument and result,
              \* the caller's record after it, and the partition allocator
    alloc,    \* per goroutine: position in genPartition and the n it observed;
              \* history: the allocations returned
    txt,      \* the codec calls: the last one's input and result
    rd        \* the goroutine reading the accessors: position, local variables
              \* and the value it returned

vars == <<g, c, w, clock, log, calls, regs, lastBack, snap, gen, lim, ctor,
          alloc, txt, rd>>

IdleCaller ==
    [pc |-> "idle", meta |-> 0, wallHi |-> 0, wallNow |-> 0, wallSafe |-> 0,
     seq |-> 0, first |-> {}, slept |-> {}, stalled |-> FALSE,
     start |-> 0, regs0 |-> 0, t |-> 0, retried |-> FALSE]

\* No watcher. tried, took, sent and last record, where the ticks are
\* counted, whether the last tick attempted a publish, whether the channel
\* took it, how many notifications the watcher published (2 standing for
\* more) and the Ticks of the last one.
WatcherOff ==
    [pc |-> "off", t |-> 0, ticks |-> 0, retryNotify |-> FALSE,
     tried |-> FALSE, took |-> FALSE, sent |-> 0, last |-> 0]

NoBack ==
    [from |-> 0, to |-> 0, wallHi |-> 0, wallSafe |-> 0, drifts |-> 0,
     busy |-> FALSE]

NoSnapshot ==
    [taken |-> FALSE, at |-> {},
     s |-> [Partition |-> <<0, 0>>, SequenceMin |-> 0, SequenceMax |-> 0,
            Sequence |-> 0, Now |-> 0, WallHi |-> 0, WallSafe |-> 0, Drifts |-> 0]]

ZeroSnapshot ==
    [Partition |-> <<0, 0>>, SequenceMin |-> 0, SequenceMax |-> 0,
     Sequence |-> 0, Now |-> 0, WallHi |-> 0, WallSafe |-> 0, Drifts |-> 0]

\* No NewGenerator call watched: the allocator's counter is ^uint32(0).
NoConstruction ==
    [calls |-> 0, given |-> FALSE, arg |-> ZeroSnapshot,
     snapshot |-> ZeroSnapshot, generator |-> FALSE, err |-> NoError,
     partitions |-> -1, before |-> -1, seed |-> 0]

\* No goroutine in genPartition, none has returned.
NoAllocation == [at |-> <<>>, out |-> <<>>, wraps |-> 0, started |-> 0]

\* No codec call made.
NoText == [op |-> "none", ops |-> <<>>]

\* No accessor being read.
NoReader ==
    [pc |-> "idle", op |-> "none", wallNow |-> 0, wallHi |-> 0, seq |-> 0,
     wallSafe |-> 0, ret |-> 0, n |-> 0]

\* The nil *Generator, as a record of zero values.
NoGenerator ==
    [partition |-> <<0, 0>>, seq |-> 0, seqMin |-> 0, seqMax |-> 0,
     seqStatic |-> 0, notify |-> {}, seqOverflowTicker |-> FALSE,
     seqOverflowCount |-> 0, seqOverflowChan |-> FALSE, drifts |-> 0,
     wallHi |-> 0, wallSafe |-> 0, regression |-> NoCaller]

\* ------------------------------------------------------------------------
\* Decisions of Generator.New
\* ------------------------------------------------------------------------
\* if wallHi == wallNow
sameTimeframe(wallHi, wallNow) == wallHi = wallNow

\* if g.seqMax >= seq
withinPool(seqMax, seq) == ~Uint32Gt(seq, seqMax)

\* if wallNow > wallSafe
canTickTock(wallNow, wallSafe) == wallNow > wallSafe

\* The four apply* calls that fill in an identifier.
newID(partition, units, counter, meta, seq) ==
    applySequence(
        applyPartition(
            applyTickTock(applyTimestamp(ZeroID, units), counter),
            partition, meta),
        seq)

\* A goroutine's New call returns id.
Return(p, id, drifts) ==
    /\ log' = Append(log, [id |-> id, p |-> p, gen |-> gen,
                           start |-> c[p].start, regs0 |-> c[p].regs0,
                           regs |-> regs, slept |-> c[p].slept,
                           stalled |-> c[p].stalled, first |-> c[p].first,
                           drifts |-> drifts, meta |-> c[p].meta,
                           wallNow |-> c[p].wallNow, via |-> "New",
                           t |-> c[p].t, retried |-> c[p].retried])
    /\ c' = [c EXCEPT ![p] = IdleCaller]

\* ------------------------------------------------------------------------
\* Generator.New, one action per atomic operation
\* ------------------------------------------------------------------------
\* A goroutine enters New(meta): wallHi = atomic.LoadInt64(g.wallHi).
Call(p, meta) ==
    /\ c[p].pc = "idle"
    /\ calls < lim.calls
    /\ snap.taken => gen = 2
    /\ calls' = calls + 1
    /\ c' = [c EXCEPT ![p] = [IdleCaller EXCEPT !.pc = "clock", !.meta = meta,
                                                !.wallHi = g.wallHi,
                                                !.start = Len(log),
                                                !.regs0 = regs]]
    /\ UNCHANGED <<g, w, clock, log, regs, lastBack, snap, gen, lim, ctor,
                   alloc, txt, rd>>

\* `return g.New(meta)`: the call starts over and loads wallHi again.
Retry(p) ==
    /\ c[p].pc = "New"
    /\ c' = [c EXCEPT ![p].pc = "clock", ![p].wallHi = g.wallHi]
    /\ UNCHANGED <<g, w, clock, log, calls, regs, lastBack, snap, gen, lim, ctor,
                   alloc, txt, rd>>

\* wallNow = g.clock()
ReadClock(p) ==
    /\ c[p].pc = "clock"
    /\ c' = [c EXCEPT ![p].pc = "branch", ![p].wallNow = clock,
                      ![p].first = IF @ = {} THEN {clock} ELSE @]
    /\ UNCHANGED <<g, w, clock, log, calls, regs, lastBack, snap, gen, lim, ctor,
                   alloc, txt, rd>>

\* Same timeframe: seq := atomic.AddUint32(g.seq, 1), then the bound test.
SameTimeframe(p) ==
    /\ c[p].pc = "branch"
    /\ sameTimeframe(c[p].wallHi, c[p].wallNow)
    /\ LET seq == AddUint32(g.seq)
       IN  /\ g' = [g EXCEPT !.seq = seq]
           /\ c' = [c EXCEPT ![p].seq = seq,
                             ![p].pc = IF withinPool(g.seqMax, seq)
                                       THEN "fastEmit" ELSE "overflow"]
    /\ UNCHANGED <<w, clock, log, calls, regs, lastBack, snap, gen, lim, ctor,
                   alloc, txt, rd>>

\* Same timeframe, within the pool: the tick-tock is read from g.drifts
\* and the identifier is returned.
FastEmit(p) ==
    /\ c[p].pc = "fastEmit"
    /\ Return(p, newID(g.partition, c[p].wallNow, g.drifts, c[p].meta, c[p].seq),
              g.drifts)
    /\ UNCHANGED <<g, w, clock, calls, regs, lastBack, snap, gen, lim, ctor,
                   alloc, txt, rd>>

\* Time progression: wallNow > wallHi && CompareAndSwapInt64(g.wallHi, wallHi, wallNow).
\* A lost CAS falls through to the regression branch.
TimeProgression(p) ==
    /\ c[p].pc = "branch"
    /\ ~sameTimeframe(c[p].wallHi, c[p].wallNow)
    /\ c[p].wallNow > c[p].wallHi
    /\ IF g.wallHi = c[p].wallHi
       THEN /\ g' = [g EXCEPT !.wallHi = c[p].wallNow]
            /\ c' = [c EXCEPT ![p].pc = "progStore"]
       ELSE /\ c' = [c EXCEPT ![p].pc = "regLock"]
            /\ UNCHANGED g
    /\ UNCHANGED <<w, clock, log, calls, regs, lastBack, snap, gen, lim, ctor,
                   alloc, txt, rd>>

\* Mutation: the time progression branch does not reset the sequence.
ProgressionStore_Skipped(p) ==
    /\ c[p].pc = "progStore"
    /\ c' = [c EXCEPT ![p].pc = "progEmit"]
    /\ UNCHANGED <<g, w, clock, log, calls, regs, lastBack, snap, gen, lim, ctor,
                   alloc, txt, rd>>

\* Time progression: atomic.StoreUint32(g.seq, g.seqMin).
ProgressionStore(p) ==
    /\ c[p].pc = "progStore"
    /\ g' = [g EXCEPT !.seq = g.seqMin]
    /\ c' = [c EXCEPT ![p].pc = "progEmit"]
    /\ UNCHANGED <<w, clock, log, calls, regs, lastBack, snap, gen, lim, ctor,
                   alloc, txt, rd>>

\* Time progression: the identifier carries seqMin and the tick-tock read now.
ProgressionEmit(p) ==
    /\ c[p].pc = "progEmit"
    /\ Return(p, newID(g.partition, c[p].wallNow, g.drifts, c[p].meta, g.seqMin),
              g.drifts)
    /\ UNCHANGED <<g, w, clock, calls, regs, lastBack, snap, gen, lim, ctor,
                   alloc, txt, rd>>

\* Mutation: a watcher is started whether or not the ticker is set.
StallEnter_AlwaysStart(p) ==
    /\ c[p].pc = "overflow"
    /\ LET waits == Uint32Gt(g.seq, g.seqMax)
       IN  /\ g' = [g EXCEPT !.seqOverflowTicker = TRUE,
                             !.seqOverflowCount = IF waits THEN @ + 1 ELSE @,
                             !.notify = IF waits THEN @ \cup {p} ELSE @]
           /\ c' = [c EXCEPT ![p].pc = IF waits THEN "wait" ELSE "New",
                             ![p].stalled = @ \/ waits]
    /\ w' = [WatcherOff EXCEPT !.pc = "tick"]
    /\ UNCHANGED <<clock, log, calls, regs, lastBack, snap, gen, lim, ctor,
                   alloc, txt, rd>>

\* Overflow: under seqOverflowCond.L the count is incremented, the watcher
\* is started when there is none, and the goroutine waits while seq > seqMax.
StallEnter(p) ==
    /\ c[p].pc = "overflow"
    /\ LET waits == Uint32Gt(g.seq, g.seqMax)
       IN  /\ g' = [g EXCEPT !.seqOverflowTicker = TRUE,
                             !.seqOverflowCount = IF waits THEN @ + 1 ELSE @,
                             !.notify = IF waits THEN @ \cup {p} ELSE @]
           /\ c' = [c EXCEPT ![p].pc = IF waits THEN "wait" ELSE "New",
                             ![p].stalled = @ \/ waits]
    /\ w' = IF g.seqOverflowTicker THEN w ELSE [WatcherOff EXCEPT !.pc = "tick"]
    /\ UNCHANGED <<clock, log, calls, regs, lastBack, snap, gen, lim, ctor,
                   alloc, txt, rd>>

\* Overflow: woken by a broadcast, the goroutine takes the lock again and
\* tests seq > seqMax again; it leaves with seqOverflowCount--.
StallWake(p) ==
    /\ c[p].pc = "wait"
    /\ p \notin g.notify
    /\ LET waits == Uint32Gt(g.seq, g.seqMax)
       IN  /\ g' = [g EXCEPT !.seqOverflowCount = IF waits THEN @ ELSE @ - 1,
                             !.notify = IF waits THEN @ \cup {p} ELSE @]
           /\ c' = [c EXCEPT ![p].pc = IF waits THEN "wait" ELSE "New"]
    /\ UNCHANGED <<w, clock, log, calls, regs, lastBack, snap, gen, lim, ctor,
                   alloc, txt, rd>>

\* Time regression: g.regression.Lock(), the second load of wallHi and the
\* read of wallSafe. Either another goroutine handled it already (start
\* over), or this goroutine applies the drift (keeps the lock), or it is in
\* the unsafe past (unlock and sleep).
RegressionLock(p) ==
    /\ \/ c[p].pc = "regLock"
       \/ /\ c[p].pc = "branch"
          /\ c[p].wallNow < c[p].wallHi
    /\ g.regression = NoCaller
    /\ IF c[p].wallNow >= g.wallHi
       THEN /\ c' = [c EXCEPT ![p].pc = "New"]
            /\ UNCHANGED g
       ELSE IF canTickTock(c[p].wallNow, g.wallSafe)
       THEN /\ c' = [c EXCEPT ![p].pc = "driftSafe", ![p].wallHi = g.wallHi,
                              ![p].wallSafe = g.wallSafe]
            /\ g' = [g EXCEPT !.regression = p]
       ELSE /\ c' = [c EXCEPT ![p].pc = "sleep", ![p].wallHi = g.wallHi,
                              ![p].wallSafe = g.wallSafe,
                              ![p].slept = @ \cup {g.wallSafe}]
            /\ UNCHANGED g
    /\ UNCHANGED <<w, clock, log, calls, regs, lastBack, snap, gen, lim, ctor,
                   alloc, txt, rd>>

\* Drift: atomic.StoreInt64(g.wallSafe, wallHi)
DriftSafe(p) ==
    /\ c[p].pc = "driftSafe"
    /\ g' = [g EXCEPT !.wallSafe = c[p].wallHi]
    /\ c' = [c EXCEPT ![p].pc = "driftHi"]
    /\ UNCHANGED <<w, clock, log, calls, regs, lastBack, snap, gen, lim, ctor,
                   alloc, txt, rd>>

\* Drift: atomic.StoreInt64(g.wallHi, wallNow)
DriftHi(p) ==
    /\ c[p].pc = "driftHi"
    /\ g' = [g EXCEPT !.wallHi = c[p].wallNow]
    /\ c' = [c EXCEPT ![p].pc = "driftSeq"]
    /\ UNCHANGED <<w, clock, log, calls, regs, lastBack, snap, gen, lim, ctor,
                   alloc, txt, rd>>

\* Drift: atomic.StoreUint32(g.seq, g.seqMin)
DriftSeq(p) ==
    /\ c[p].pc = "driftSeq"
    /\ g' = [g EXCEPT !.seq = g.seqMin]
    /\ c' = [c EXCEPT ![p].pc = "driftEmit"]
    /\ UNCHANGED <<w, clock, log, calls, regs, lastBack, snap, gen, lim, ctor,
                   alloc, txt, rd>>

\* Drift: atomic.AddUint32(g.drifts, 1) gives the tick-tock; the identifier
\* is returned and the regression lock released.
DriftEmit(p) ==
    /\ c[p].pc = "driftEmit"
    /\ g' = [g EXCEPT !.drifts = g.drifts + 1, !.regression = NoCaller]
    /\ Return(p, newID(g.partition, c[p].wallNow, g.drifts + 1, c[p].meta, g.seqMin),
              g.drifts + 1)
    /\ UNCHANGED <<w, clock, calls, regs, lastBack, snap, gen, lim, ctor,
                   alloc, txt, rd>>

\* Mutation: the call that slept counts a drift before it starts over.
Slumber_Drifts(p) ==
    /\ c[p].pc = "sleep"
    /\ c' = [c EXCEPT ![p].pc = "New"]
    /\ g' = [g EXCEPT !.drifts = g.drifts + 1]
    /\ UNCHANGED <<w, clock, log, calls, regs, lastBack, snap, gen, lim, ctor,
                   alloc, txt, rd>>

\* Unsafe past: time.Sleep(wallSafe - wallNow) is over, the call starts over.
Slumber(p) ==
    /\ c[p].pc = "sleep"
    /\ c' = [c EXCEPT ![p].pc = "New"]
    /\ UNCHANGED <<g, w, clock, log, calls, regs, lastBack, snap, gen, lim, ctor,
                   alloc, txt, rd>>

\* ------------------------------------------------------------------------
\* Generator.NewWithTime, one action per atomic operation
\* ------------------------------------------------------------------------
\* atomic.AddUint32(g.seqStatic, 1): the counter wraps at 2^32, or at
\* `wrap` in a run that follows it all the way round (wrap > 0).
addStatic(x, wrap) == IF wrap = 0 THEN AddUint32(x) ELSE (x + 1) % wrap

\* The positions inside NewWithTime.
WithTimePCs == {"add", "reset", "emit"}

\* The identifier NewWithTime builds: no tick-tock is applied. t is
\* t.UnixNano() - epochNsec.
newIDWithTime(partition, t, meta, seq) ==
    applySequence(applyPartition(applyTimestamp(ZeroID, quo(t, TimeUnit)),
                                 partition, meta),
                  seq)

\* History: the number of NewWithTime calls started.
withTimeCalls ==
    Cardinality({p \in DOMAIN c : c[p].pc \in WithTimePCs})
    + Cardinality({j \in 1..Len(log) : log[j].via = "NewWithTime"})

\* A goroutine enters NewWithTime(meta, t).
WithTimeCall(p, meta, t) ==
    /\ c[p].pc = "idle"
    /\ withTimeCalls < lim.withTime
    /\ c' = [c EXCEPT ![p] = [IdleCaller EXCEPT !.pc = "add", !.meta = meta,
                                                !.t = t, !.start = Len(log),
                                                !.regs0 = regs]]
    /\ UNCHANGED <<g, w, clock, log, calls, regs, lastBack, snap, gen, lim, ctor,
                   alloc, txt, rd>>

\* var seq = atomic.AddUint32(g.seqStatic, 1), and the test seq > g.seqMax.
StaticAdd(p) ==
    /\ c[p].pc = "add"
    /\ LET seq == addStatic(g.seqStatic, lim.wrap)
       IN  /\ g' = [g EXCEPT !.seqStatic = seq]
           /\ c' = [c EXCEPT ![p].seq = seq,
                             ![p].pc = IF Uint32Gt(seq, g.seqMax)
                                       THEN "reset" ELSE "emit"]
    /\ UNCHANGED <<w, clock, log, calls, regs, lastBack, snap, gen, lim, ctor,
                   alloc, txt, rd>>

\* Mutation: the roll-over also stores seqMin to the sequence of New.
StaticReset_Shared(p) ==
    /\ c[p].pc = "reset"
    /\ g' = [g EXCEPT !.seqStatic = g.seqMin, !.seq = g.seqMin]
    /\ c' = [c EXCEPT ![p].seq = g.seqMin, ![p].pc = "emit"]
    /\ UNCHANGED <<w, clock, log, calls, regs, lastBack, snap, gen, lim, ctor,
                   alloc, txt, rd>>

\* atomic.CompareAndSwapUint32(g.seqStatic, seq, g.seqMin): on success
\* seq = g.seqMin, on failure `return g.NewWithTime(meta, t)`.
StaticReset(p) ==
    /\ c[p].pc = "reset"
    /\ IF g.seqStatic = c[p].seq
       THEN /\ g' = [g EXCEPT !.seqStatic = g.seqMin]
            /\ c' = [c EXCEPT ![p].seq = g.seqMin, ![p].pc = "emit"]
       ELSE /\ c' = [c EXCEPT ![p].pc = "add", ![p].retried = TRUE]
            /\ UNCHANGED g
    /\ UNCHANGED <<w, clock, log, calls, regs, lastBack, snap, gen, lim, ctor,
                   alloc, txt, rd>>

\* Mutation: the identifier is built under the regression lock.
StaticEmit_Locked(p) ==
    /\ c[p].pc = "emit"
    /\ g.regression = NoCaller
    /\ log' = Append(log, [id |-> newIDWithTime(g.partition, c[p].t, c[p].meta,
                                                c[p].seq),
                           p |-> p, gen |-> gen, start |-> c[p].start,
                           regs0 |-> c[p].regs0, regs |-> regs,
                           slept |-> c[p].slept, stalled |-> c[p].stalled,
                           first |-> c[p].first, drifts |-> 0,
                           meta |-> c[p].meta, wallNow |-> c[p].wallNow,
                           via |-> "NewWithTime", t |-> c[p].t,
                           retried |-> c[p].retried])
    /\ c' = [c EXCEPT ![p] = IdleCaller]
    /\ UNCHANGED <<g, w, clock, calls, regs, lastBack, snap, gen, lim, ctor,
                   alloc, txt, rd>>

\* applyTimestamp, applyPartition, applySequence and the return.
StaticEmit(p) ==
    /\ c[p].pc = "emit"
    /\ log' = Append(log, [id |-> newIDWithTime(g.partition, c[p].t, c[p].meta,
                                                c[p].seq),
                           p |-> p, gen |-> gen, start |-> c[p].start,
                           regs0 |-> c[p].regs0, regs |-> regs,
                           slept |-> c[p].slept, stalled |-> c[p].stalled,
                           first |-> c[p].first, drifts |-> 0,
                           meta |-> c[p].meta, wallNow |-> c[p].wallNow,
                           via |-> "NewWithTime", t |-> c[p].t,
                           retried |-> c[p].retried])
    /\ c' = [c EXCEPT ![p] = IdleCaller]
    /\ UNCHANGED <<g, w, clock, calls, regs, lastBack, snap, gen, lim, ctor,
                   alloc, txt, rd>>

\* ------------------------------------------------------------------------
\* Generator.seqOverflowLoop, one action per atomic operation
\* ------------------------------------------------------------------------
\* if retryNotify || g.seqOverflowCount == 0 || ticks%4 == 1
notifyDue(retryNotify, count, ticks) ==
    retryNotify \/ count = 0 \/ ticks % 4 = 1

\* Mutation: the watcher goes on when it finds no stalled goroutine.
watcherStops_Never(count) == FALSE

\* Mutation: the watcher stops at its first tick.
watcherStops_Early(count) == TRUE

\* The watcher stops when it finds no stalled goroutine.
watcherStops(count) == count = 0

\* Mutation: every tick counts as a new timeframe.
tickIsNewTimeframe_Always(wallNow, wallHi) == TRUE

\* if wallNow > wallHi, wallNow being the time of the tick
tickIsNewTimeframe(wallNow, wallHi) == wallNow > wallHi

\* `for t := range g.seqOverflowTicker.C`: a tick is received, t is its time.
WatcherTick ==
    /\ w.pc = "tick"
    /\ w' = [w EXCEPT !.pc = "lock", !.t = clock]
    /\ UNCHANGED <<g, c, clock, log, calls, regs, lastBack, snap, gen, lim, ctor,
                   alloc, txt, rd>>

\* The ticks are counted as the uint32 they are where lim names a fold, and
\* modulo 4 elsewhere.
Counted == "fold" \in DOMAIN lim

\* ticks++. The loop uses ticks as ticks%4 and as the Ticks it publishes.
\* Counted, a count that reaches lim.fold goes on from lim.fold - 3, which
\* keeps ticks%4 and keeps every count below lim.fold - 3 exact.
nextTicks(ticks) ==
    IF Counted
    THEN IF ticks = lim.fold THEN ticks - 3 ELSE AddUint32(ticks)
    ELSE (ticks + 1) % 4

\* Under seqOverflowCond.L: count the tick and publish when a channel is set
\* (ready: the channel takes the message), then stop when nobody is stalled.
WatcherLock(ready) ==
    /\ w.pc = "lock"
    /\ LET ticks == IF g.seqOverflowChan THEN nextTicks(w.ticks) ELSE w.ticks
           attempt == g.seqOverflowChan
                        /\ notifyDue(w.retryNotify, g.seqOverflowCount, ticks)
           retry == IF attempt THEN ~ready ELSE w.retryNotify
           noted == Counted /\ attempt /\ ready
           sent == IF noted /\ w.sent < 2 THEN w.sent + 1 ELSE w.sent
           last == IF noted THEN ticks ELSE w.last
       IN  /\ attempt \/ ready
           /\ IF watcherStops(g.seqOverflowCount)
              THEN /\ g' = [g EXCEPT !.seqOverflowTicker = FALSE]
                   /\ w' = [WatcherOff EXCEPT !.tried = Counted /\ attempt,
                                              !.took = noted,
                                              !.sent = sent, !.last = last]
              ELSE /\ w' = [w EXCEPT !.pc = "seq", !.ticks = ticks,
                                     !.retryNotify = retry,
                                     !.tried = Counted /\ attempt,
                                     !.took = noted,
                                     !.sent = sent, !.last = last]
                   /\ UNCHANGED g
    /\ UNCHANGED <<c, clock, log, calls, regs, lastBack, snap, gen, lim, ctor,
                   alloc, txt, rd>>

\* if g.seqMax >= atomic.LoadUint32(g.seq)
WatcherSeq ==
    /\ w.pc = "seq"
    /\ w' = [w EXCEPT !.pc = IF withinPool(g.seqMax, g.seq) THEN "broadcast"
                             ELSE "wallHi"]
    /\ UNCHANGED <<g, c, clock, log, calls, regs, lastBack, snap, gen, lim, ctor,
                   alloc, txt, rd>>

\* wallHi = atomic.LoadInt64(g.wallHi); if wallNow > wallHi
WatcherWallHi ==
    /\ w.pc = "wallHi"
    /\ w' = [w EXCEPT !.pc = IF tickIsNewTimeframe(w.t, g.wallHi) THEN "store"
                             ELSE "tick"]
    /\ UNCHANGED <<g, c, clock, log, calls, regs, lastBack, snap, gen, lim, ctor,
                   alloc, txt, rd>>

\* atomic.StoreUint32(g.seq, g.seqMin)
WatcherStore ==
    /\ w.pc = "store"
    /\ g' = [g EXCEPT !.seq = g.seqMin]
    /\ w' = [w EXCEPT !.pc = "broadcast"]
    /\ UNCHANGED <<c, clock, log, calls, regs, lastBack, snap, gen, lim, ctor,
                   alloc, txt, rd>>

\* g.seqOverflowCond.Broadcast()
WatcherBroadcast ==
    /\ w.pc = "broadcast"
    /\ g' = [g EXCEPT !.notify = {}]
    /\ w' = [w EXCEPT !.pc = "tick"]
    /\ UNCHANGED <<c, clock, log, calls, regs, lastBack, snap, gen, lim, ctor,
                   alloc, txt, rd>>

\* ------------------------------------------------------------------------
\* The wall clock
\* ------------------------------------------------------------------------
ClockForward ==
    /\ clock < lim.clock
    /\ clock' = clock + 1
    /\ UNCHANGED <<g, c, w, log, calls, regs, lastBack, snap, gen, lim, ctor,
                   alloc, txt, rd>>

ClockBack(to) ==
    /\ regs < lim.regress
    /\ to < clock
    /\ clock' = to
    /\ regs' = regs + 1
    /\ lastBack' = [from |-> clock, to |-> to, wallHi |-> g.wallHi,
                    wallSafe |-> g.wallSafe, drifts |-> g.drifts,
                    busy |-> \E p \in Callers : c[p].pc # "idle"]
    /\ UNCHANGED <<g, c, w, log, calls, snap, gen, lim, ctor,
                   alloc, txt, rd>>

\* ------------------------------------------------------------------------
\* Snapshot and restore
\* ------------------------------------------------------------------------
\* Generator.Snapshot, wallNow being g.clock().
Snapshot(gn, wallNow) ==
    [Partition |-> gn.partition,
     SequenceMin |-> Uint16(gn.seqMin),
     SequenceMax |-> Uint16(gn.seqMax),
     Sequence |-> IF wallNow = gn.wallHi THEN gn.seq ELSE gn.seqMin,
     Now |-> wallNow,
     WallHi |-> gn.wallHi,
     WallSafe |-> gn.wallSafe,
     Drifts |-> gn.drifts]

\* The generator goes offline: its snapshot is taken after its last issue.
TakeSnapshot ==
    /\ gen = 1
    /\ ~snap.taken
    /\ \A p \in Callers : c[p].pc = "idle"
    /\ snap' = [taken |-> TRUE, at |-> {}, s |-> Snapshot(g, clock)]
    /\ UNCHANGED <<g, c, w, clock, log, calls, regs, lastBack, gen, lim, ctor,
                   alloc, txt, rd>>

\* NewGenerator(&snapshot, c) at the current wall clock time.
Restore ==
    /\ gen = 1
    /\ snap.taken
    /\ sanitizeSnapshotBounds(snap.s).err = errNone
    /\ g' = newGeneratorFromSnapshot(sanitizeSnapshotBounds(snap.s).s,
                                     g.seqOverflowChan, clock)
    /\ w' = WatcherOff
    /\ gen' = 2
    /\ snap' = [snap EXCEPT !.at = {clock}]
    /\ UNCHANGED <<c, clock, log, calls, regs, lastBack, lim, ctor,
                   alloc, txt, rd>>

\* ------------------------------------------------------------------------
\* NewGenerator
\* ------------------------------------------------------------------------
\* NewGenerator(snapshot, ch): given is snapshot != nil and s the record it
\* points to. g is the generator returned, and stays what it was when the
\* call returns nil and an error.
NewGenerator(given, s, ch) ==
    /\ ctor.calls < lim.constructs
    /\ IF given
       THEN LET res == sanitizeSnapshotBounds(s)
            IN  /\ g' = IF res.err = errNone
                        THEN newGeneratorFromSnapshot(res.s, ch, clock)
                        ELSE g
                /\ ctor' = [ctor EXCEPT
                              !.calls = @ + 1,
                              !.given = TRUE,
                              !.arg = s,
                              !.snapshot = callerRecord(s, res.s),
                              !.generator = (res.err = errNone),
                              !.err = IF res.err = errNone THEN NoError
                                      ELSE invalidSequenceBounds(res.s, res.err),
                              !.before = ctor.partitions]
       ELSE LET p == genPartition(ctor.partitions, ctor.seed)
            IN  /\ g' = IF p.err = errNone
                        THEN newGeneratorFromDefaults(p.partition, ch)
                        ELSE g
                /\ ctor' = [ctor EXCEPT
                              !.calls = @ + 1,
                              !.given = FALSE,
                              !.arg = ZeroSnapshot,
                              !.snapshot = ZeroSnapshot,
                              !.generator = (p.err = errNone),
                              !.err = [NoError EXCEPT !.Msg = p.err],
                              !.partitions = p.partitions,
                              !.before = ctor.partitions]
    /\ UNCHANGED <<c, w, clock, log, calls, regs, lastBack, snap, gen, lim,
                   alloc, txt, rd>>

\* ------------------------------------------------------------------------
\* genPartition, called concurrently
\* ------------------------------------------------------------------------
Allocators == 1..AllocCallers

\* n := atomic.AddUint32(&partitions, 1). alloc.wraps counts how often the
\* counter has stepped from all-ones to zero, the step of the first call
\* included: the call is allocation number (wraps - 1) * 2^32 + n.
PartitionAdd(p) ==
    /\ alloc.at[p].pc = "idle"
    /\ alloc.started < lim.allocs
    /\ LET n == AddUint32(ctor.partitions)
           wraps == IF n = 0 THEN alloc.wraps + 1 ELSE alloc.wraps
       IN  /\ ctor' = [ctor EXCEPT !.partitions = n]
           /\ alloc' = [alloc EXCEPT
                          !.at[p] = [pc |-> "added", n |-> n, wraps |-> wraps],
                          !.wraps = wraps,
                          !.started = @ + 1]
    /\ UNCHANGED <<g, c, w, clock, log, calls, regs, lastBack, snap, gen, lim,
                   txt, rd>>

\* The comparison with MaxPartition and the return.
PartitionReturn(p) ==
    /\ alloc.at[p].pc = "added"
    /\ LET r == partitionFor(alloc.at[p].n, ctor.seed)
       IN  alloc' = [alloc EXCEPT
                       !.at[p] = [pc |-> "idle", n |-> 0, wraps |-> 0],
                       !.out = Append(@, [n |-> alloc.at[p].n,
                                          wraps |-> alloc.at[p].wraps,
                                          err |-> r.err,
                                          partition |-> r.partition])]
    /\ UNCHANGED <<g, c, w, clock, log, calls, regs, lastBack, snap, gen, lim,
                   ctor, txt, rd>>

\* ------------------------------------------------------------------------
\* Calls of the text codec
\* ------------------------------------------------------------------------
\* The codec calls watched: txt.id is the identifier the methods are called
\* on, txt.text the byte slice or string passed to the decoders and returned
\* by MarshalText, txt.ret the identifier a function returned.

\* b, err := id.MarshalText()
CallMarshalText ==
    /\ txt.op # "none"
    /\ Len(txt.ops) < lim.codec
    /\ txt' = [txt EXCEPT !.text = Encode(txt.id),
                          !.err = errNone,
                          !.size = 0,
                          !.ops = Append(@, "MarshalText")]
    /\ UNCHANGED <<g, c, w, clock, log, calls, regs, lastBack, snap, gen, lim,
                   ctor, alloc, rd>>

\* err := id.UnmarshalText(text)
CallUnmarshalText ==
    /\ txt.op # "none"
    /\ Len(txt.ops) < lim.codec
    /\ LET r == UnmarshalText(txt.id, txt.text)
       IN  txt' = [txt EXCEPT !.id = r.id,
                              !.err = r.err,
                              !.size = r.Size,
                              !.ops = Append(@, "UnmarshalText")]
    /\ UNCHANGED <<g, c, w, clock, log, calls, regs, lastBack, snap, gen, lim,
                   ctor, alloc, rd>>

\* ret, err := FromEncodedBytes(text)
CallFromEncodedBytes ==
    /\ txt.op # "none"
    /\ Len(txt.ops) < lim.codec
    /\ LET r == FromEncodedBytes(txt.text)
       IN  txt' = [txt EXCEPT !.ret = r.id,
                              !.err = r.err,
                              !.size = r.Size,
                              !.ops = Append(@, "FromEncodedBytes")]
    /\ UNCHANGED <<g, c, w, clock, log, calls, regs, lastBack, snap, gen, lim,
                   ctor, alloc, rd>>

\* ret, err := FromEncodedString(text)
CallFromEncodedString ==
    /\ txt.op # "none"
    /\ Len(txt.ops) < lim.codec
    /\ LET r == FromEncodedString(txt.text)
       IN  txt' = [txt EXCEPT !.ret = r.id,
                              !.err = r.err,
                              !.size = r.Size,
                              !.ops = Append(@, "FromEncodedString")]
    /\ UNCHANGED <<g, c, w, clock, log, calls, regs, lastBack, snap, gen, lim,
                   ctor, alloc, rd>>

\* cmp := id.Compare(that)
CallCompare(that) ==
    /\ txt.op # "none"
    /\ Len(txt.ops) < lim.codec
    /\ txt' = [txt EXCEPT !.that = that,
                          !.cmp = IDCompare(txt.id, that),
                          !.ops = Append(@, "Compare")]
    /\ UNCHANGED <<g, c, w, clock, log, calls, regs, lastBack, snap, gen, lim,
                   ctor, alloc, rd>>

\* ------------------------------------------------------------------------
\* The accessors Sequence, Len and Snapshot, one action per atomic load
\* ------------------------------------------------------------------------
\* Generator.Cap
Cap(gn) == gn.seqMax - gn.seqMin + 1

\* The sizes of int the builds have.
IntSizes == {32, 64}

\* A Go int: v when high is FALSE, 2^32 + v when it is TRUE.
intValue(v) == [high |-> FALSE, v |-> v]

\* int(d) + 1 for a uint32 d: where int has 32 bits a d of 2^31 or more is
\* the negative d - 2^32, where it has 64 it is d.
intPlusOne(d, bits) ==
    IF d >= 0 \/ bits = 32 THEN intValue(d + 1) ELSE [high |-> TRUE, v |-> d + 1]

\* Len as the distance of seq from seqMin.
lenOf_Distance(gn, seq, bits) ==
    IF Uint32Gt(gn.seqMax, seq)
    THEN intValue(seq - gn.seqMin)
    ELSE intValue(Cap(gn))

\* What Len returns once it has seen wallNow == wallHi and loaded seq.
lenOf(gn, seq, bits) ==
    IF Uint32Gt(gn.seqMax, seq)
    THEN intPlusOne(seq - gn.seqMin, bits)
    ELSE intValue(Cap(gn))

AccessorOps == {"Sequence", "Len", "Snapshot"}

\* The accessor called: wallNow := g.clock().
AccessorCall(op) ==
    /\ rd.pc \in {"idle", "done"}
    /\ rd.n < lim.reads
    /\ rd' = [NoReader EXCEPT !.pc = "wallHi", !.op = op, !.wallNow = clock,
                              !.n = rd.n + 1]
    /\ UNCHANGED <<g, c, w, clock, log, calls, regs, lastBack, snap, gen, lim,
                   ctor, alloc, txt>>

\* atomic.LoadInt64(g.wallHi) and the comparison with wallNow. Sequence
\* and Len return when the two differ, Snapshot takes seqMin for seq.
LoadWallHi ==
    /\ rd.pc = "wallHi"
    /\ rd' = IF rd.wallNow = g.wallHi
             THEN [rd EXCEPT !.pc = "seq", !.wallHi = g.wallHi]
             ELSE IF rd.op = "Sequence"
             THEN [rd EXCEPT !.pc = "done", !.wallHi = g.wallHi,
                             !.ret = g.seqMin]
             ELSE IF rd.op = "Len"
             THEN [rd EXCEPT !.pc = "done", !.wallHi = g.wallHi,
                             !.ret = intValue(0)]
             ELSE [rd EXCEPT !.pc = "wallSafe", !.wallHi = g.wallHi,
                             !.seq = g.seqMin]
    /\ UNCHANGED <<g, c, w, clock, log, calls, regs, lastBack, snap, gen, lim,
                   ctor, alloc, txt>>

\* atomic.LoadUint32(g.seq), and the return of Sequence and of Len.
LoadSeq(bits) ==
    /\ rd.pc = "seq"
    /\ rd' = IF rd.op = "Sequence"
             THEN [rd EXCEPT !.pc = "done", !.seq = g.seq, !.ret = g.seq]
             ELSE IF rd.op = "Len"
             THEN [rd EXCEPT !.pc = "done", !.seq = g.seq,
                             !.ret = lenOf(g, g.seq, bits)]
             ELSE [rd EXCEPT !.pc = "wallSafe", !.seq = g.seq]
    /\ UNCHANGED <<g, c, w, clock, log, calls, regs, lastBack, snap, gen, lim,
                   ctor, alloc, txt>>

\* Snapshot: atomic.LoadInt64(g.wallSafe).
LoadWallSafe ==
    /\ rd.pc = "wallSafe"
    /\ rd' = [rd EXCEPT !.pc = "drifts", !.wallSafe = g.wallSafe]
    /\ UNCHANGED <<g, c, w, clock, log, calls, regs, lastBack, snap, gen, lim,
                   ctor, alloc, txt>>

\* A snapshot that carries seq whatever the clock read.
snapshotOf_LiveSequence(gn, r) ==
    [Partition |-> gn.partition,
     SequenceMin |-> Uint16(gn.seqMin),
     SequenceMax |-> Uint16(gn.seqMax),
     Sequence |-> gn.seq,
     Now |-> r.wallNow,
     WallHi |-> r.wallHi,
     WallSafe |-> r.wallSafe,
     Drifts |-> gn.drifts]

\* The GeneratorSnapshot literal Snapshot returns, drifts loaded last.
snapshotOf(gn, r) ==
    [Partition |-> gn.partition,
     SequenceMin |-> Uint16(gn.seqMin),
     SequenceMax |-> Uint16(gn.seqMax),
     Sequence |-> r.seq,
     Now |-> r.wallNow,
     WallHi |-> r.wallHi,
     WallSafe |-> r.wallSafe,
     Drifts |-> gn.drifts]

\* Snapshot: atomic.LoadUint32(g.drifts), and the return.
LoadDrifts ==
    /\ rd.pc = "drifts"
    /\ rd' = [rd EXCEPT !.pc = "done", !.ret = snapshotOf(g, rd)]
    /\ UNCHANGED <<g, c, w, clock, log, calls, regs, lastBack, snap, gen, lim,
                   ctor, alloc, txt>>

\* Sequence() and Len().
ReadCounters ==
    \/ \E op \in {"Sequence", "Len"} : AccessorCall(op)
    \/ LoadWallHi
    \/ \E bits \in IntSizes : LoadSeq(bits)

\* Sequence(), Len() and Snapshot().
ReadAll ==
    \/ \E op \in AccessorOps : AccessorCall(op)
    \/ LoadWallHi
    \/ \E bits \in IntSizes : LoadSeq(bits)
    \/ LoadWallSafe
    \/ LoadDrifts

\* ------------------------------------------------------------------------
\* Specifications
\* ------------------------------------------------------------------------
\* Snapshots the first generator is constructed from, at time 1: a pool of
\* six, the sequence at its default, one short of the last of the pool or at
\* the highest uint32, and wallHi the current timeframe.
InitSnapshots ==
    [Partition : {<<255, 255>>}, SequenceMin : {1}, SequenceMax : {6},
     Sequence : {0, 5, -1}, Now : {0}, WallHi : {1}, WallSafe : {0},
     Drifts : {0}]

\* The same, and snapshots of a generator that ran before: one that stopped
\* in this timeframe with its pool used up, one that stopped in a later
\* timeframe, and one that stopped in a later one after it had tick-tocked
\* at time 0.
PastSnapshots ==
    InitSnapshots
    \cup [Partition : {<<255, 255>>}, SequenceMin : {1}, SequenceMax : {6},
          Sequence : {6}, Now : {1}, WallHi : {1}, WallSafe : {0}, Drifts : {0}]
    \cup [Partition : {<<255, 255>>}, SequenceMin : {1}, SequenceMax : {6},
          Sequence : {1}, Now : {2}, WallHi : {2}, WallSafe : {0}, Drifts : {0}]
    \cup [Partition : {<<255, 255>>}, SequenceMin : {1}, SequenceMax : {6},
          Sequence : {1}, Now : {2}, WallHi : {2}, WallSafe : {1}, Drifts : {1}]

\* NewGenerator(&s, ch) for one of the snapshots, the clock reading now.
InitAt(snapshots, chans, limits, now) ==
    /\ \E s \in snapshots, ch \in chans :
          /\ sanitizeSnapshotBounds(s).err = errNone
          /\ g = newGeneratorFromSnapshot(sanitizeSnapshotBounds(s).s, ch, now)
    /\ c = [p \in Callers \cup AtCallers |-> IdleCaller]
    /\ w = WatcherOff
    /\ clock = now
    /\ log = <<>>
    /\ calls = 0
    /\ regs = 0
    /\ lastBack = NoBack
    /\ snap = NoSnapshot
    /\ gen = 1
    /\ ctor = NoConstruction
    /\ alloc = NoAllocation
    /\ txt = NoText
    /\ rd = NoReader
    /\ lim = limits

InitWith(snapshots, chans, limits) == InitAt(snapshots, chans, limits, 1)

New(p, metas) ==
    \/ \E meta \in metas : Call(p, meta)
    \/ Retry(p)
    \/ ReadClock(p)
    \/ SameTimeframe(p)
    \/ FastEmit(p)
    \/ TimeProgression(p)
    \/ ProgressionStore(p)
    \/ ProgressionEmit(p)
    \/ StallEnter(p)
    \/ StallWake(p)
    \/ RegressionLock(p)
    \/ DriftSafe(p)
    \/ DriftHi(p)
    \/ DriftSeq(p)
    \/ DriftEmit(p)
    \/ Slumber(p)

NewWithTime(p, metas, times) ==
    \/ \E meta \in metas, t \in times : WithTimeCall(p, meta, t)
    \/ StaticAdd(p)
    \/ StaticReset(p)
    \/ StaticEmit(p)

seqOverflowLoop ==
    \/ WatcherTick
    \/ \E ready \in BOOLEAN : WatcherLock(ready)
    \/ WatcherSeq
    \/ WatcherWallHi
    \/ WatcherStore
    \/ WatcherBroadcast

\* Concurrent callers of one generator, any clock.
Init ==
    InitWith(InitSnapshots, {FALSE},
             [calls |-> MaxCalls, clock |-> MaxClock, regress |-> MaxRegress])

Next ==
    \/ \E p \in Callers : New(p, {0})
    \/ seqOverflowLoop
    \/ ClockForward
    \/ \E to \in 0..MaxClock : ClockBack(to)

Spec == Init /\ [][Next]_vars

\* One goroutine calling New sequentially, the clock never going back.
InitMono ==
    InitWith(PastSnapshots, {FALSE},
             [calls |-> MonoCalls, clock |-> MonoClock, regress |-> 0])

NextMono ==
    \/ New(1, Metas)
    \/ seqOverflowLoop
    \/ ClockForward

SpecMono == InitMono /\ [][NextMono]_vars

\* One goroutine calling New sequentially, any clock.
InitSolo ==
    InitWith(PastSnapshots, {FALSE},
             [calls |-> SoloCalls, clock |-> SoloClock, regress |-> SoloRegress])

NextSolo ==
    \/ New(1, {0})
    \/ seqOverflowLoop
    \/ ClockForward
    \/ \E to \in 0..SoloClock : ClockBack(to)

SpecSolo == InitSolo /\ [][NextSolo]_vars

\* One goroutine calling New sequentially, any clock, and one restart of
\* the generator from the snapshot it left behind.
InitRestart ==
    InitWith(PastSnapshots, {FALSE},
             [calls |-> RestartCalls, clock |-> RestartClock,
              regress |-> RestartRegress])

NextRestart ==
    \/ New(1, {0})
    \/ seqOverflowLoop
    \/ ClockForward
    \/ \E to \in 0..RestartClock : ClockBack(to)
    \/ TakeSnapshot
    \/ Restore

SpecRestart == InitRestart /\ [][NextRestart]_vars

\* Times at which a byte of the timestamp is about to carry into the next.
EpochStarts == {127, 32767, 8388607}

\* The snapshots of PastSnapshots, taken `now - 1` time units later and of
\* a generator of the given partition.
LaterSnapshots(now, partition) ==
    {[s EXCEPT !.Partition = partition,
               !.Now = @ + now - 1,
               !.WallHi = @ + now - 1,
               !.WallSafe = IF @ = 0 THEN 0 ELSE @ + now - 1] :
        s \in PastSnapshots}

\* One goroutine calling New sequentially, the clock never going back,
\* generators of several partitions started at late times.
InitEpoch ==
    \E now \in EpochStarts, partition \in {<<0, 1>>, <<255, 254>>} :
        InitAt(LaterSnapshots(now, partition), {FALSE},
               [calls |-> EpochCalls, clock |-> now + EpochSpan, regress |-> 0],
               now)

NextEpoch ==
    \/ New(1, Metas)
    \/ seqOverflowLoop
    \/ ClockForward

SpecEpoch == InitEpoch /\ [][NextEpoch]_vars

\* Instants given to NewWithTime, as t.UnixNano() - epochNsec: the last
\* nanosecond before the epoch, the last one of time unit 0, the first one
\* of time unit 1.
Instants == {-1, TimeUnit - 1, TimeUnit}

\* Snapshots of a pool of six or seven, the lower bound zero or not.
WithTimeSnapshots ==
    [Partition : {<<255, 255>>}, SequenceMin : {0, 1}, SequenceMax : {6},
     Sequence : {0}, Now : {0}, WallHi : {1}, WallSafe : {0}, Drifts : {0}]

\* The generator gn after `done` NewWithTime calls made one after the other:
\* seqStatic is the sequence of the last of them.
afterWithTime(gn, done) ==
    IF done = 0 THEN gn
    ELSE [gn EXCEPT !.seqStatic = gn.seqMin + ((done - 1) % Cap(gn))]

\* One goroutine calling NewWithTime sequentially on a fresh generator, made
\* from a snapshot or from defaults; a generator made from defaults is also
\* taken up two calls before its pool is used up for the first time.
InitWithTime ==
    /\ \E done \in {0, MaxSequence - 1} :
          /\ g \in {afterWithTime(newGeneratorFromDefaults(<<0, 1>>, FALSE), done)}
                   \cup {newGeneratorFromSnapshot(sanitizeSnapshotBounds(s).s,
                                                  FALSE, 1) :
                            s \in IF done = 0 THEN WithTimeSnapshots ELSE {}}
          /\ lim = [calls |-> 0, clock |-> 1, regress |-> 0, wrap |-> 0,
                    withTime |-> AtCalls, done |-> done]
    /\ c = [p \in Callers \cup AtCallers |-> IdleCaller]
    /\ w = WatcherOff
    /\ clock = 1
    /\ log = <<>>
    /\ calls = 0
    /\ regs = 0
    /\ lastBack = NoBack
    /\ snap = NoSnapshot
    /\ gen = 1
    /\ ctor = NoConstruction
    /\ alloc = NoAllocation
    /\ txt = NoText
    /\ rd = NoReader

NextWithTime == NewWithTime(1, {0}, Instants)

SpecWithTime == InitWithTime /\ [][NextWithTime]_vars

\* The caller of New is off the processor: waiting on seqOverflowCond,
\* sleeping in the unsafe past, or stopped while it holds g.regression.
Parked == c[1].pc \in {"wait", "sleep"} \/ g.regression = 1

\* A generator that served NewWithTime calls up to the end of its pool. One
\* goroutine calls New; once it is parked, the other goroutines call
\* NewWithTime, once each, and from then on they alone are scheduled: the
\* caller of New, the watcher and the clock stay as they are. seqStatic
\* wraps at StaticWrap, so that a run can follow it all the way round.
InitStatic ==
    /\ \E s \in PastSnapshots :
          LET gn == newGeneratorFromSnapshot(sanitizeSnapshotBounds(s).s,
                                             FALSE, 1)
          IN  g = afterWithTime(gn, Cap(gn))
    /\ lim = [calls |-> LiveCalls, clock |-> LiveClock, regress |-> 0,
              wrap |-> StaticWrap, withTime |-> StaticCalls]
    /\ c = [p \in Callers \cup AtCallers |-> IdleCaller]
    /\ w = WatcherOff
    /\ clock = 1
    /\ log = <<>>
    /\ calls = 0
    /\ regs = 0
    /\ lastBack = NoBack
    /\ snap = NoSnapshot
    /\ gen = 1
    /\ ctor = NoConstruction
    /\ alloc = NoAllocation
    /\ txt = NoText
    /\ rd = NoReader

\* The steps of a NewWithTime call that is under way.
ContinueWithTime(p) ==
    \/ StaticAdd(p)
    \/ StaticReset(p)
    \/ StaticEmit(p)

\* The goroutines are numbered in the order of their calls.
NextToCall(p) == p = NumCallers + 1 + withTimeCalls

NextStatic ==
    \/ /\ withTimeCalls = 0
       /\ \/ New(1, {0})
          \/ seqOverflowLoop
          \/ ClockForward
    \/ /\ Parked
       /\ \E p \in AtCallers :
             \/ NextToCall(p) /\ WithTimeCall(p, 0, 0)
             \/ ContinueWithTime(p)

SpecStatic ==
    /\ InitStatic
    /\ [][NextStatic]_vars
    /\ \A p \in AtCallers : WF_vars(ContinueWithTime(p))

\* One goroutine calling New and another calling NewWithTime on the same
\* generator, in any interleaving, the clock never going back.
InitBoth ==
    /\ \E s \in PastSnapshots, used \in BOOLEAN :
          LET gn == newGeneratorFromSnapshot(sanitizeSnapshotBounds(s).s,
                                             FALSE, 1)
          IN  g = afterWithTime(gn, IF used THEN Cap(gn) ELSE 0)
    /\ lim = [calls |-> LiveCalls, clock |-> LiveClock, regress |-> 0,
              wrap |-> 0, withTime |-> BothCalls]
    /\ c = [p \in Callers \cup AtCallers |-> IdleCaller]
    /\ w = WatcherOff
    /\ clock = 1
    /\ log = <<>>
    /\ calls = 0
    /\ regs = 0
    /\ lastBack = NoBack
    /\ snap = NoSnapshot
    /\ gen = 1
    /\ ctor = NoConstruction
    /\ alloc = NoAllocation
    /\ txt = NoText
    /\ rd = NoReader

NextBoth ==
    \/ New(1, {0})
    \/ NewWithTime(NumCallers + 1, {0}, {0})
    \/ seqOverflowLoop
    \/ ClockForward

SpecBoth == InitBoth /\ [][NextBoth]_vars

\* Bounds and sequences given in snapshots: zero, the ends of pools of
\* three to six, and the highest values.
GivenBounds == {0, 2, 4, 5, 6, 7, MaxSequence}
GivenSequences == {0, 1, 6, 8, -1}

ConstructSnapshots ==
    [Partition : {<<255, 255>>}, SequenceMin : GivenBounds,
     SequenceMax : GivenBounds, Sequence : GivenSequences, Now : {0},
     WallHi : {1}, WallSafe : {0}, Drifts : {0}]

\* A process that calls NewGenerator, with snapshots or without. Its
\* partition allocator is fresh or has one partition left, the seed being
\* the highest.
InitConstruct ==
    /\ g = NoGenerator
    /\ \E seed \in {MaxPartition}, partitions \in {-1, MaxPartition - 1} :
          ctor = [NoConstruction EXCEPT !.seed = seed,
                                        !.partitions = partitions,
                                        !.before = partitions]
    /\ alloc = NoAllocation
    /\ txt = NoText
    /\ rd = NoReader
    /\ lim = [calls |-> 0, clock |-> 1, regress |-> 0,
              constructs |-> ConstructCalls]
    /\ c = [p \in Callers \cup AtCallers |-> IdleCaller]
    /\ w = WatcherOff
    /\ clock = 1
    /\ log = <<>>
    /\ calls = 0
    /\ regs = 0
    /\ lastBack = NoBack
    /\ snap = NoSnapshot
    /\ gen = 1

NextConstruct ==
    \/ \E s \in ConstructSnapshots : NewGenerator(TRUE, s, FALSE)
    \/ NewGenerator(FALSE, ZeroSnapshot, FALSE)

SpecConstruct == InitConstruct /\ [][NextConstruct]_vars

\* Snapshots with small pools at the bottom, in the middle and at the top
\* of the range of sequences, and with pools the constructor accepts.
PoolSpans == 1..PoolSpan

PoolSnapshots ==
    {[Partition |-> <<0, 1>>, SequenceMin |-> lo, SequenceMax |-> lo + d,
      Sequence |-> sq, Now |-> 0, WallHi |-> 1, WallSafe |-> 0, Drifts |-> 0] :
        lo \in {0, 2}, d \in PoolSpans, sq \in {0, 1, 9}}
    \cup
    {[Partition |-> <<0, 1>>, SequenceMin |-> MaxSequence - 3,
      SequenceMax |-> MaxSequence - 3 + d,
      Sequence |-> sq, Now |-> 0, WallHi |-> 1, WallSafe |-> 0, Drifts |-> 0] :
        d \in 1..3, sq \in {0, 1, 9}}

\* A process that calls NewGenerator with snapshots of small pools.
InitPool ==
    /\ g = NoGenerator
    /\ ctor = NoConstruction
    /\ alloc = NoAllocation
    /\ txt = NoText
    /\ rd = NoReader
    /\ clock = 1
    /\ lim = [calls |-> 0, clock |-> 1, regress |-> 0, constructs |-> PoolCalls]
    /\ c = [p \in Callers \cup AtCallers |-> IdleCaller]
    /\ w = WatcherOff
    /\ log = <<>>
    /\ calls = 0
    /\ regs = 0
    /\ lastBack = NoBack
    /\ snap = NoSnapshot
    /\ gen = 1

NextPool == \E s \in PoolSnapshots : NewGenerator(TRUE, s, FALSE)

SpecPool == InitPool /\ [][NextPool]_vars

\* Snapshots of generators that ran before, with bounds in either order
\* and the upper one left at zero, taken before, in and after a regression.
RestoreSnapshots ==
    [Partition : {<<1, 2>>}, SequenceMin : {0, 7}, SequenceMax : {0, 1},
     Sequence : {0, 8}, Now : {0}, WallHi : {0, 1, 3}, WallSafe : {0, 2, 3},
     Drifts : {0, 1}]

\* A process that restores generators from snapshots while its clock reads
\* one of the times up to RestoreClock.
InitRestore ==
    /\ g = NoGenerator
    /\ ctor = NoConstruction
    /\ alloc = NoAllocation
    /\ txt = NoText
    /\ rd = NoReader
    /\ clock \in 1..RestoreClock
    /\ lim = [calls |-> 0, clock |-> RestoreClock, regress |-> 0,
              constructs |-> RestoreCalls]
    /\ c = [p \in Callers \cup AtCallers |-> IdleCaller]
    /\ w = WatcherOff
    /\ log = <<>>
    /\ calls = 0
    /\ regs = 0
    /\ lastBack = NoBack
    /\ snap = NoSnapshot
    /\ gen = 1

NextRestore == \E s \in RestoreSnapshots : NewGenerator(TRUE, s, FALSE)

SpecRestore == InitRestore /\ [][NextRestore]_vars
\* Goroutines that call genPartition in a process whose allocator is fresh,
\* has handed out all partitions but two, or has been called 2^32 - 2
\* times; the seed is zero, one or the highest.
InitAllocate ==
    /\ g = NoGenerator
    /\ \E seed \in {0, 1, MaxPartition},
          past \in {[partitions |-> -1, wraps |-> 0],
                    [partitions |-> MaxPartition - 2, wraps |-> 1],
                    [partitions |-> -3, wraps |-> 1]} :
          /\ ctor = [NoConstruction EXCEPT !.seed = seed,
                                           !.partitions = past.partitions,
                                           !.before = past.partitions]
          /\ alloc = [at |-> [p \in Allocators |->
                                [pc |-> "idle", n |-> 0, wraps |-> 0]],
                      out |-> <<>>, wraps |-> past.wraps, started |-> 0]
    /\ lim = [calls |-> 0, clock |-> 1, regress |-> 0, allocs |-> AllocCalls]
    /\ txt = NoText
    /\ rd = NoReader
    /\ c = [p \in Callers \cup AtCallers |-> IdleCaller]
    /\ w = WatcherOff
    /\ clock = 1
    /\ log = <<>>
    /\ calls = 0
    /\ regs = 0
    /\ lastBack = NoBack
    /\ snap = NoSnapshot
    /\ gen = 1

NextAllocate == \E p \in Allocators : PartitionAdd(p) \/ PartitionReturn(p)

SpecAllocate == InitAllocate /\ [][NextAllocate]_vars
\* Byte values spread over 0..255, digits spread over 0..31.
ByteValues == {(255 * i) \div (ByteSamples - 1) : i \in 0..(ByteSamples - 1)}
DigitValues == {(31 * i) \div (DigitSamples - 1) : i \in 0..(DigitSamples - 1)}

\* Identifiers of zeros or of ones in which two adjacent bytes vary.
IDs ==
    {[k \in 1..SizeBinary |-> IF k = i THEN a ELSE IF k = i + 1 THEN b ELSE base] :
        i \in 1..(SizeBinary - 1), a \in ByteValues, b \in ByteValues,
        base \in {0, 255}}

\* Texts of the first or of the last character of the alphabet in which
\* three adjacent characters vary.
Texts ==
    {[k \in 1..SizeEncoded |->
        enc[1 + (IF k = i THEN x ELSE IF k = i + 1 THEN y
                 ELSE IF k = i + 2 THEN z ELSE base)]] :
        i \in 1..(SizeEncoded - 2), x \in DigitValues, y \in DigitValues,
        z \in DigitValues, base \in {0, 31}}

\* Inputs of other lengths, and inputs of the right length with a byte that
\* is no character of the alphabet.
BadTexts ==
    {[k \in 1..n |-> enc[1]] : n \in {0, SizeBinary, SizeEncoded - 1, SizeEncoded + 1}}
    \cup {[k \in 1..SizeEncoded |-> IF k = i THEN b ELSE enc[32]] :
            i \in {1, 8, SizeEncoded}, b \in {0, 49, 58, 96, 121, 255}}

\* The codec is called on an identifier, or on an identifier and a text.
InitCodec ==
    /\ \E id \in IDs \cup {ZeroID}, text \in Texts \cup BadTexts :
          /\ id \in {ZeroID, [k \in 1..SizeBinary |-> 255]} \/ text = <<>>
          /\ txt = [op |-> "codec", id |-> id, that |-> ZeroID, text |-> text,
                    ret |-> ZeroID, err |-> errNone, size |-> 0, cmp |-> 0,
                    ops |-> <<>>, orig |-> [id |-> id, text |-> text]]
    /\ lim = [calls |-> 0, clock |-> 1, regress |-> 0, codec |-> CodecCalls]
    /\ g = NoGenerator
    /\ ctor = NoConstruction
    /\ alloc = NoAllocation
    /\ rd = NoReader
    /\ c = [p \in Callers \cup AtCallers |-> IdleCaller]
    /\ w = WatcherOff
    /\ clock = 1
    /\ log = <<>>
    /\ calls = 0
    /\ regs = 0
    /\ lastBack = NoBack
    /\ snap = NoSnapshot
    /\ gen = 1

NextCodec ==
    \/ CallMarshalText
    \/ CallUnmarshalText
    \/ CallFromEncodedBytes
    \/ CallFromEncodedString

SpecCodec == InitCodec /\ [][NextCodec]_vars

\* Identifiers whose halves are each of one value.
Thats ==
    {[k \in 1..SizeBinary |-> IF 2 * k <= SizeBinary THEN a ELSE b] :
        a \in {(255 * i) \div (SortSamples - 1) : i \in 0..(SortSamples - 1)},
        b \in {(255 * i) \div (SortSamples - 1) : i \in 0..(SortSamples - 1)}}

\* One identifier is compared with another.
InitSort ==
    /\ \E id \in IDs :
          txt = [op |-> "sort", id |-> id, that |-> ZeroID, text |-> <<>>,
                 ret |-> ZeroID, err |-> errNone, size |-> 0, cmp |-> 0,
                 ops |-> <<>>, orig |-> [id |-> id, text |-> <<>>]]
    /\ lim = [calls |-> 0, clock |-> 1, regress |-> 0, codec |-> 1]
    /\ g = NoGenerator
    /\ ctor = NoConstruction
    /\ alloc = NoAllocation
    /\ rd = NoReader
    /\ c = [p \in Callers \cup AtCallers |-> IdleCaller]
    /\ w = WatcherOff
    /\ clock = 1
    /\ log = <<>>
    /\ calls = 0
    /\ regs = 0
    /\ lastBack = NoBack
    /\ snap = NoSnapshot
    /\ gen = 1

NextSort == \E that \in Thats : CallCompare(that)

SpecSort == InitSort /\ [][NextSort]_vars

\* Goroutines calling New of one generator while another goroutine reads
\* Sequence() and Len(), the clock never going back.
InitAccess ==
    InitWith(PastSnapshots, {FALSE},
             [calls |-> AccessCalls, clock |-> AccessClock, regress |-> 0,
              reads |-> AccessOps])

NextAccess ==
    \/ \E p \in 1..AccessCallers : New(p, {0})
    \/ seqOverflowLoop
    \/ ClockForward
    \/ ReadCounters

SpecAccess == InitAccess /\ [][NextAccess]_vars

\* Goroutines calling New of one generator made with or without a
\* notification channel, and the overflow watcher; the clock never goes back.
InitStall ==
    InitWith(PastSnapshots, BOOLEAN,
             [calls |-> StallCalls, clock |-> StallClock, regress |-> 0])

NextStall ==
    \/ \E p \in 1..StallCallers : New(p, {0})
    \/ seqOverflowLoop
    \/ ClockForward

SpecStall == InitStall /\ [][NextStall]_vars

\* One goroutine that calls New and, between its calls, the accessors; the
\* clock never goes back.
InitHeld ==
    InitWith(PastSnapshots, {FALSE},
             [calls |-> HeldCalls, clock |-> HeldClock, regress |-> 0,
              reads |-> HeldOps])

NextHeld ==
    \/ rd.pc \in {"idle", "done"} /\ New(1, {0})
    \/ seqOverflowLoop
    \/ ClockForward
    \/ c[1].pc = "idle" /\ ReadAll

SpecHeld == InitHeld /\ [][NextHeld]_vars

\* Callers of one generator, the clock never going back, with or without a
\* notification channel. Every goroutine inside New keeps being scheduled
\* and the ticker keeps ticking while the watcher runs; nothing makes a new
\* caller arrive, the clock advance, or the channel take a message.
InitLive ==
    InitWith(PastSnapshots, BOOLEAN,
             [calls |-> LiveCalls, clock |-> LiveClock, regress |-> 0])

NextLive ==
    \/ \E p \in 1..LiveCallers : New(p, {0})
    \/ seqOverflowLoop
    \/ ClockForward

\* The steps of a New call that is under way.
Continue(p) ==
    \/ Retry(p)
    \/ ReadClock(p)
    \/ SameTimeframe(p)
    \/ FastEmit(p)
    \/ TimeProgression(p)
    \/ ProgressionStore(p)
    \/ ProgressionEmit(p)
    \/ StallEnter(p)
    \/ StallWake(p)
    \/ RegressionLock(p)
    \/ DriftSafe(p)
    \/ DriftHi(p)
    \/ DriftSeq(p)
    \/ DriftEmit(p)
    \/ Slumber(p)

SpecLive ==
    /\ InitLive
    /\ [][NextLive]_vars
    /\ \A p \in 1..LiveCallers : WF_vars(Continue(p))
    /\ WF_vars(seqOverflowLoop)

\* One goroutine calling New often enough to overflow, be released and
\* overflow again, with or without a notification channel; the ticker keeps
\* ticking while a watcher runs.
InitDrain ==
    InitWith(PastSnapshots, BOOLEAN,
             [calls |-> DrainCalls, clock |-> DrainClock, regress |-> 0,
              fold |-> DrainFold])

NextDrain ==
    \/ New(1, {0})
    \/ seqOverflowLoop
    \/ ClockForward

SpecDrain ==
    /\ InitDrain
    /\ [][NextDrain]_vars
    /\ WF_vars(seqOverflowLoop)

\* The pool used up in the current timeframe.
UsedUp ==
    [Partition |-> <<255, 255>>, SequenceMin |-> 1, SequenceMax |-> 6,
     Sequence |-> 6, Now |-> 1, WallHi |-> 1, WallSafe |-> 0, Drifts |-> 0]

\* Goroutine 1 called New of the generator restored from UsedUp and has been
\* waiting on the overflow since; the watcher has ticked 2^32 - 3 times, the
\* channel took the notification of its last tick, and it waits for the
\* next tick.
InitLongOverflow ==
    /\ g = [newGeneratorFromSnapshot(sanitizeSnapshotBounds(UsedUp).s, TRUE, 1)
              EXCEPT !.seq = AddUint32(UsedUp.Sequence),
                     !.seqOverflowCount = 1,
                     !.seqOverflowTicker = TRUE,
                     !.notify = {1}]
    /\ c = [p \in Callers \cup AtCallers |->
              IF p = 1
              THEN [IdleCaller EXCEPT !.pc = "wait", !.wallHi = 1,
                                      !.wallNow = 1, !.first = {1},
                                      !.seq = AddUint32(UsedUp.Sequence),
                                      !.stalled = TRUE]
              ELSE IdleCaller]
    /\ w = [WatcherOff EXCEPT !.pc = "tick", !.t = 1, !.ticks = -3,
                              !.tried = TRUE, !.took = TRUE, !.sent = 2,
                              !.last = -3]
    /\ clock = 1
    /\ log = <<>>
    /\ calls = 1
    /\ regs = 0
    /\ lastBack = NoBack
    /\ snap = NoSnapshot
    /\ gen = 1
    /\ ctor = NoConstruction
    /\ alloc = NoAllocation
    /\ txt = NoText
    /\ rd = NoReader
    /\ lim = [calls |-> NotifyCalls, clock |-> NotifyClock, regress |-> 0,
              fold |-> NotifyFold]

\* Goroutines calling New of a generator with a notification channel that
\* takes or drops each message; the generator is new or in a long overflow.
InitNotify ==
    \/ InitWith(PastSnapshots, {TRUE},
                [calls |-> NotifyCalls, clock |-> NotifyClock, regress |-> 0,
                 fold |-> NotifyFold])
    \/ InitLongOverflow

NextNotify ==
    \/ \E p \in 1..NotifyCallers : New(p, {0})
    \/ seqOverflowLoop
    \/ ClockForward

SpecNotify == InitNotify /\ [][NextNotify]_vars

\* A snapshot that gives bounds only, as the tests construct their
\* generators: the smallest pool, of six, no sequence, no times.
BoundsOnly ==
    [Partition : {<<255, 255>>}, SequenceMin : {1}, SequenceMax : {6},
     Sequence : {0}, Now : {0}, WallHi : {0}, WallSafe : {0}, Drifts : {0}]

\* The snapshot was taken in a later timeframe than the one of time 1.
Ahead(s) == s.WallHi > 1

\* Goroutines sharing one generator, the clock never going back. ahead: the
\* generator was restored from a snapshot taken at a later time.
InitShared ==
    \E a \in BOOLEAN :
        InitWith({s \in BoundsOnly \cup PastSnapshots : Ahead(s) = a}, {FALSE},
                 [calls |-> SharedCalls, clock |-> SharedClock, regress |-> 0,
                  ahead |-> a])

NextShared ==
    \/ \E p \in 1..SharedCallers : New(p, {0})
    \/ seqOverflowLoop
    \/ ClockForward

SpecShared == InitShared /\ [][NextShared]_vars

\* The same goroutines using up the pool of a generator that was given
\* bounds only, within one timeframe.
InitCrowd ==
    \/ InitWith(BoundsOnly, {FALSE},
                [calls |-> CrowdCalls, clock |-> CrowdClock, regress |-> 0,
                 ahead |-> FALSE])
    \/ \E a \in BOOLEAN :
          InitWith({s \in PastSnapshots \ InitSnapshots : Ahead(s) = a}, {FALSE},
                   [calls |-> AheadCalls, clock |-> SharedClock, regress |-> 0,
                    ahead |-> a])

SpecCrowd == InitCrowd /\ [][NextShared]_vars

\* One goroutine calling New sequentially on a clock that goes far enough
\* ahead of wallSafe to come back between wallSafe and wallHi.
InitDeep ==
    InitWith(PastSnapshots, {FALSE},
             [calls |-> DeepCalls, clock |-> DeepClock, regress |-> DeepRegress])

SpecDeep == InitDeep /\ [][NextSolo]_vars

\* ------------------------------------------------------------------------
\* The (timestamp units, tick-tock bit, sequence) triple of an identifier.
IDTriple(id) == <<IDUnits(id), IDTickTock(id), IDSequence(id)>>

\* C1: no two identifiers returned by New of one generator carry the same
\* (timestamp units, tick-tock bit, sequence) triple, under every
\* interleaving of callers and the watcher and every clock behaviour.
C1_UniqueTriples ==
    \A i, j \in 1..Len(log) :
        i < j => IDTriple(log[i].id) # IDTriple(log[j].id)

\* C3: every identifier returned has seqMin <= sequence <= seqMax, also for
\* a generator restored from a snapshot whose Sequence exceeds seqMax.
C3_SequenceWithinBounds ==
    \A i \in 1..Len(log) :
        /\ g.seqMin <= IDSequence(log[i].id)
        /\ IDSequence(log[i].id) <= g.seqMax

\* C9: with a clock that never went back, when one call returned before
\* another started and both identifiers carry the same timestamp block, the
\* later call's sequence is the greater one.
C9_LaterCallHigherSequence ==
    regs = 0 =>
        \A i, j \in 1..Len(log) :
            (/\ i <= log[j].start
             /\ IDBlock(log[i].id) = IDBlock(log[j].id))
            => IDSequence(log[j].id) > IDSequence(log[i].id)

\* C4: with a single sequential caller and a clock that never moves
\* backwards, all identifiers New returned are pairwise distinct as byte
\* arrays, calls that went through the overflow stall included.
C4_SoloMonotoneDistinct ==
    \A i, j \in 1..Len(log) : i < j => log[i].id # log[j].id

\* The last sequence of the pool was issued in one timeframe and the next
\* call, after its overflow stall, returned in the next timeframe, where
\* another call followed it.
C4_Witness ==
    \E i, j, k \in 1..Len(log) :
        /\ i < j /\ j < k
        /\ IDSequence(log[i].id) = g.seqMax
        /\ log[j].stalled
        /\ IDUnits(log[j].id) > IDUnits(log[i].id)
        /\ IDUnits(log[k].id) = IDUnits(log[j].id)

\* C10 as stated: without clock regression, each identifier a sequential
\* caller gets compares byte-wise greater than every identifier returned
\* before it, whatever the metabytes.
C10_Original ==
    \A i, j \in 1..Len(log) :
        i < j => IDCompare(log[j].id, log[i].id) = 1

\* C10 amended: each identifier compares byte-wise greater than every
\* earlier identifier of another timeframe, and than every earlier
\* identifier of its own timeframe whose metabyte is not greater than its own.
C10_IncreasingPerMeta ==
    \A i, j \in 1..Len(log) :
        (/\ i < j
         /\ \/ IDUnits(log[i].id) # IDUnits(log[j].id)
            \/ IDMeta(log[i].id) <= IDMeta(log[j].id))
        => IDCompare(log[j].id, log[i].id) = 1

\* Two identifiers of one timeframe with rising metabytes and one of a later
\* timeframe with a lower metabyte.
C10_Witness ==
    \E i, j, k \in 1..Len(log) :
        /\ i < j /\ j < k
        /\ IDUnits(log[i].id) = IDUnits(log[j].id)
        /\ IDMeta(log[i].id) < IDMeta(log[j].id)
        /\ IDUnits(log[j].id) < IDUnits(log[k].id)
        /\ IDMeta(log[k].id) < IDMeta(log[j].id)

\* Identifiers returned before the clock first went back, and identifiers
\* of calls that started after that.
BeforeStep == {i \in 1..Len(log) : log[i].regs = 0}
AfterStep == {j \in 1..Len(log) : log[j].regs0 >= 1}

\* The clock went back once, by one unit, from a time T at which identifiers
\* had been issued, and the first New call after the step read the clock at
\* T - 1.
OneStepBack ==
    /\ regs = 1
    /\ lastBack.from = lastBack.to + 1
    /\ lastBack.wallHi = lastBack.from
    /\ \E i \in BeforeStep : IDUnits(log[i].id) = lastBack.from
    /\ AfterStep # {}
    /\ \A j \in AfterStep :
          (\A k \in AfterStep : k >= j) => log[j].first = {lastBack.to}

\* What C5 says of the identifiers before and after the step.
TickTocked ==
    \A i \in BeforeStep, j \in AfterStep :
        /\ log[j].drifts = lastBack.drifts + 1
        /\ IDTickTock(log[j].id) # IDTickTock(log[i].id)
        /\ IDBlock(log[j].id) # IDBlock(log[i].id)

C6_SlumberUntilWallSafe ==
    \A j \in 1..Len(log) :
        (/\ log[j].slept # {}
         /\ log[j].drifts = 1)
        => \A wallSafe \in log[j].slept : IDUnits(log[j].id) >= wallSafe

\* Identifiers issued by the first generator and by the restored one.
IssuedBy(n) == {i \in 1..Len(log) : log[i].gen = n}

\* C2: no identifier issued by a generator restored from the snapshot taken
\* after the last issue of the first generator equals an identifier the
\* first generator issued, whatever the clock reads at the restore.
C2_RestartSafety ==
    \A i \in IssuedBy(1), j \in IssuedBy(2) : log[i].id # log[j].id

\* C7: a generator restored from a snapshot with wallSafe > clock() returns
\* no identifier before it has slept or tick-tocked, and no identifier whose
\* timestamp block is <= that of an identifier issued before the restart.
C7_RestoredInUnsafePast ==
    (gen = 2 /\ \E wallNow \in snap.at : snap.s.WallSafe > wallNow) =>
        /\ \A j \in IssuedBy(2) :
              \/ log[j].slept # {}
              \/ log[j].drifts > snap.s.Drifts
        /\ \A i \in IssuedBy(1), j \in IssuedBy(2) :
              bytesCompare(IDBlock(log[j].id), IDBlock(log[i].id)) = 1

C11_ConsecutiveSequences ==
    \A i \in 1..(Len(log) - 1) :
        /\ IDUnits(log[i + 1].id) = IDUnits(log[i].id)
              => IDSequence(log[i + 1].id) = IDSequence(log[i].id) + 1
        /\ IDUnits(log[i + 1].id) > IDUnits(log[i].id)
              => IDSequence(log[i + 1].id) = g.seqMin

\* Two identifiers of one time unit, the first of the next time unit and
\* the one that follows it there.
C11_Witness ==
    \E i \in 1..(Len(log) - 3) :
        /\ IDUnits(log[i + 1].id) = IDUnits(log[i].id)
        /\ IDUnits(log[i + 2].id) > IDUnits(log[i + 1].id)
        /\ IDUnits(log[i + 3].id) = IDUnits(log[i + 2].id)

\* The clock stepped back once, while no New call was under way, from
\* wallHi = H to a time N with wallSafe < N < H, and has stayed at N.
SteppedBackIntoSafePast ==
    /\ regs = 1
    /\ clock = lastBack.to
    /\ ~lastBack.busy
    /\ lastBack.from = lastBack.wallHi
    /\ lastBack.wallSafe < lastBack.to
    /\ lastBack.to < lastBack.wallHi

WithTimeSequence(j) == g.seqMin + ((lim.done + j - 1) % Cap(g))

WithTimeStep ==
    \E p \in DOMAIN c :
        /\ c'[p] # c[p]
        /\ c[p].pc \in WithTimePCs \/ c'[p].pc \in WithTimePCs

C16_IndependentPaths ==
    [][IF WithTimeStep
       THEN /\ g'.seq = g.seq
            /\ g'.wallHi = g.wallHi
            /\ g'.wallSafe = g.wallSafe
            /\ g'.drifts = g.drifts
            /\ g'.seqOverflowCount = g.seqOverflowCount
            /\ g'.seqOverflowTicker = g.seqOverflowTicker
            /\ g'.notify = g.notify
            /\ g'.regression = g.regression
            /\ w' = w
       ELSE g'.seqStatic = g.seqStatic]_vars

\* New returned an identifier while a NewWithTime call that rolled seqStatic
\* over was under way, and NewWithTime returned another afterwards.
C16_Witness ==
    \E i, j, k \in 1..Len(log) :
        /\ log[j].via = "NewWithTime"
        /\ IDSequence(log[j].id) = g.seqMin
        /\ log[i].via = "New"
        /\ log[j].start < i
        /\ i < j
        /\ log[k].via = "NewWithTime"
        /\ j < k

\* ------------------------------------------------------------------------
\* Construction from a snapshot: what the caller gave
\* ------------------------------------------------------------------------
\* The last NewGenerator call was given a snapshot.
FromSnapshot == ctor.calls > 0 /\ ctor.given

\* The upper bound given, a zero standing for 65535 unless the lower bound
\* given is 65535.
GivenMax ==
    IF ctor.arg.SequenceMax = 0 /\ ctor.arg.SequenceMin # 65535
    THEN 65535 ELSE ctor.arg.SequenceMax

Lower == IF ctor.arg.SequenceMin < GivenMax THEN ctor.arg.SequenceMin ELSE GivenMax
Higher == IF ctor.arg.SequenceMin < GivenMax THEN GivenMax ELSE ctor.arg.SequenceMin
Capacity == Higher - Lower + 1

\* The sequence given is not zero and below the lower bound (as uint32).
Underflows == ctor.arg.Sequence # 0 /\ Uint32Gt(Lower, ctor.arg.Sequence)

\* The bounds given passed the checks of the bounds.
BoundsPassed ==
    ctor.err.Msg \notin {errSequenceBoundsIdenticalMsg, errSequencePoolTooSmallMsg}

\* ------------------------------------------------------------------------
\* C17: construction from a snapshot succeeds exactly when the normalized
\* bounds give a capacity of at least 4 and the sequence is 0 or at least
\* seqMin; a smaller pool of distinct bounds is rejected as too small.
\* ------------------------------------------------------------------------
C17_PoolOfFourAccepted ==
    FromSnapshot =>
        /\ ctor.generator <=> (Capacity >= 4 /\ ~Underflows)
        /\ (Capacity < 4 /\ Lower # Higher)
              => ctor.err.Msg = errSequencePoolTooSmallMsg

\* ------------------------------------------------------------------------
\* C18: for every accepted snapshot seqMin is the lower and seqMax the
\* higher of the two bounds given, a SequenceMax of 0 paired with a
\* SequenceMin other than 65535 standing for 65535; every generator
\* constructed has seqMin < seqMax.
\* ------------------------------------------------------------------------
C18_BoundsEitherOrder ==
    (ctor.calls > 0 /\ ctor.generator) =>
        /\ g.seqMin < g.seqMax
        /\ ctor.given => (g.seqMin = Lower /\ g.seqMax = Higher)

\* A snapshot with its bounds in reverse order was accepted, and one with
\* SequenceMin 65535 and SequenceMax 0 is the case at hand.
C18_Witness ==
    /\ FromSnapshot
    /\ ctor.generator
    /\ ctor.arg.SequenceMin = 65535
    /\ ctor.arg.SequenceMax = 0
    /\ g.seqMin = 0

C20_InvalidLeavesNoTrace ==
    FromSnapshot =>
        /\ (Lower = Higher \/ Capacity < 4 \/ Underflows) => ~ctor.generator
        /\ ~ctor.generator =>
              /\ ctor.err.Cur = ctor.arg.Sequence
              /\ ctor.err.Min = Lower
              /\ ctor.err.Max = Higher
              /\ \/ ctor.err.Msg = errSequenceBoundsIdenticalMsg /\ Lower = Higher
                 \/ ctor.err.Msg = errSequencePoolTooSmallMsg /\ Lower < Higher
                 \/ /\ ctor.err.Msg = errSequenceUnderflowsBound
                    /\ Lower < Higher
                    /\ Underflows
              /\ ctor.snapshot = ctor.arg
              /\ ctor.partitions = ctor.before

\* A snapshot with its bounds in reverse order and a pool of three was
\* rejected, after a generator was made from defaults.
C20_Witness ==
    /\ FromSnapshot
    /\ ~ctor.generator
    /\ ctor.arg.SequenceMin = 7
    /\ ctor.arg.SequenceMax = 5
    /\ ctor.err.Msg = errSequencePoolTooSmallMsg
    /\ ctor.partitions \in {0, MaxPartition}
    /\ g.seqMax = MaxSequence
    /\ g.seqMin = 0

\* ------------------------------------------------------------------------
\* C21: a generator constructed from a valid snapshot has the snapshot's
\* partition, drifts and wallSafe and its normalized bounds; its wallHi is
\* the snapshot's too (original: at every clock value; amended: unless the
\* snapshot's wallSafe is not zero and ahead of the clock at construction,
\* where wallHi is the clock reading).
\* ------------------------------------------------------------------------
Restored == FromSnapshot /\ ctor.generator

OtherFieldsVerbatim ==
    /\ g.partition = ctor.arg.Partition
    /\ g.seqMin = Lower
    /\ g.seqMax = Higher
    /\ g.drifts = ctor.arg.Drifts
    /\ g.wallSafe = ctor.arg.WallSafe

SafeAhead == ctor.arg.WallSafe # 0 /\ ctor.arg.WallSafe > clock

C21_Original ==
    Restored => OtherFieldsVerbatim /\ g.wallHi = ctor.arg.WallHi

C21_FieldsFromSnapshot ==
    Restored =>
        /\ OtherFieldsVerbatim
        /\ g.wallHi = IF SafeAhead THEN clock ELSE ctor.arg.WallHi

\* Restored from a snapshot taken after a regression whose wallSafe is
\* ahead of the clock and whose wallHi is another time, bounds in reverse.
C21_Witness ==
    /\ Restored
    /\ SafeAhead
    /\ ctor.arg.WallHi # clock
    /\ ctor.arg.SequenceMin > ctor.arg.SequenceMax
    /\ ctor.arg.SequenceMax # 0
    /\ ctor.arg.Drifts = 1
\* ------------------------------------------------------------------------
\* C22: of the allocations of one process, in the order of their atomic
\* increments, the first 65536 succeed with pairwise distinct partitions,
\* the n-th being (seed + n) mod 65536, and every later one fails with
\* PartitionPoolExhausted.
\* ------------------------------------------------------------------------
AmongFirst(e) == e.wraps = 1 /\ e.n >= 0 /\ e.n <= MaxPartition

PartitionNumber(e) == e.partition[1] * 256 + e.partition[2]

C22_DefaultPartitions ==
    /\ \A j \in 1..Len(alloc.out) :
          IF AmongFirst(alloc.out[j])
          THEN /\ alloc.out[j].err = errNone
               /\ PartitionNumber(alloc.out[j])
                     = (ctor.seed + alloc.out[j].n) % 65536
          ELSE alloc.out[j].err = errPartitionPoolExhaustedMsg
    /\ \A i, j \in 1..Len(alloc.out) :
          /\ i # j
          /\ AmongFirst(alloc.out[i])
          /\ AmongFirst(alloc.out[j])
          => alloc.out[i].partition # alloc.out[j].partition
\* ------------------------------------------------------------------------
\* The text codec: what was called last, and on what
\* ------------------------------------------------------------------------
LastOp == IF txt.ops = <<>> THEN "none" ELSE txt.ops[Len(txt.ops)]

\* The characters "23456789abcdefghijklmnopqrstuvwx".
Alphabet == 50..57 \cup 97..120

IsByte(b) == b \in 0..255

Ones == [k \in 1..10 |-> 255]

\* ------------------------------------------------------------------------
\* C23: decoding the encoding of an identifier gives the identifier back,
\* through each of the decoders.
\* ------------------------------------------------------------------------
C23_DecodeEncode ==
    /\ txt.ops = <<"MarshalText", "UnmarshalText">>
          => txt.err = errNone /\ txt.id = txt.orig.id
    /\ txt.ops = <<"MarshalText", "FromEncodedBytes">>
          => txt.err = errNone /\ txt.ret = txt.orig.id
    /\ txt.ops = <<"MarshalText", "FromEncodedString">>
          => txt.err = errNone /\ txt.ret = txt.orig.id

\* An identifier with bytes other than 0 and 255 was encoded and decoded
\* into a new identifier.
C23_Witness ==
    /\ txt.ops = <<"MarshalText", "FromEncodedBytes">>
    /\ \E i \in 1..9 : /\ txt.orig.id[i] \notin {0, 255}
                       /\ txt.orig.id[i + 1] \notin {0, 255, txt.orig.id[i]}
    /\ txt.ret = txt.orig.id

\* ------------------------------------------------------------------------
\* C24: encoding the decoding of a text of 16 characters of the alphabet
\* gives the text back; every encoding has 16 characters of the alphabet,
\* sixteen '2' for the identifier of zeros and sixteen 'x' for that of ones.
\* ------------------------------------------------------------------------
C24_EncodeDecode ==
    /\ /\ txt.ops = <<"UnmarshalText", "MarshalText">>
       /\ Len(txt.orig.text) = 16
       /\ \A k \in 1..16 : txt.orig.text[k] \in Alphabet
       => txt.text = txt.orig.text
    /\ LastOp = "MarshalText" =>
          /\ Len(txt.text) = 16
          /\ \A k \in 1..16 : txt.text[k] \in Alphabet
          /\ txt.id = ZeroID => txt.text = [k \in 1..16 |-> 50]
          /\ txt.id = Ones => txt.text = [k \in 1..16 |-> 120]

\* A text with three different characters in its last places was decoded
\* into an identifier of ones and encoded again.
C24_Witness ==
    /\ txt.ops = <<"UnmarshalText", "MarshalText">>
    /\ txt.orig.id = Ones
    /\ Len(txt.orig.text) = 16
    /\ txt.orig.text[14] # txt.orig.text[15]
    /\ txt.orig.text[15] # txt.orig.text[16]
    /\ txt.orig.text[14] # txt.orig.text[16]
    /\ \A k \in 1..16 : txt.orig.text[k] \in Alphabet
    /\ txt.text = txt.orig.text

\* ------------------------------------------------------------------------
\* C25: the byte-wise comparison of two identifiers has the sign of the
\* byte-wise comparison of their encodings.
\* ------------------------------------------------------------------------
C25_SortOrderKept ==
    LastOp = "Compare" =>
        txt.cmp = bytesCompare(Encode(txt.id), Encode(txt.that))

\* Two identifiers that first differ in their fifth byte, the smaller one
\* having the larger sixth byte.
C25_Witness ==
    /\ LastOp = "Compare"
    /\ txt.cmp = -1
    /\ \A k \in 1..4 : txt.id[k] = txt.that[k]
    /\ txt.id[5] < txt.that[5]
    /\ txt.id[5] # 0
    /\ txt.id[6] > txt.that[6]

\* ------------------------------------------------------------------------
\* C26: a text decoder given an input whose length is not 16 fails with
\* InvalidDataSize, leaves the identifier it was called on as it was and
\* returns the zero identifier; given 16 bytes, of the alphabet or not, it
\* yields an identifier.
\* ------------------------------------------------------------------------
C26_DecodeChecksSize ==
    /\ LastOp = "UnmarshalText" /\ Len(txt.text) # 16
          => /\ txt.err = errInvalidDataSizeMsg
             /\ txt.size = Len(txt.text)
             /\ txt.id = txt.orig.id
    /\ LastOp \in {"FromEncodedBytes", "FromEncodedString"} /\ Len(txt.text) # 16
          => /\ txt.err = errInvalidDataSizeMsg
             /\ txt.size = Len(txt.text)
             /\ txt.ret = ZeroID
             /\ txt.id = txt.orig.id
    /\ LastOp = "UnmarshalText" /\ Len(txt.text) = 16
          => /\ txt.err = errNone
             /\ Len(txt.id) = 10
             /\ \A k \in 1..10 : IsByte(txt.id[k])
    /\ LastOp \in {"FromEncodedBytes", "FromEncodedString"} /\ Len(txt.text) = 16
          => /\ txt.err = errNone
             /\ Len(txt.ret) = 10
             /\ \A k \in 1..10 : IsByte(txt.ret[k])

\* UnmarshalText was called on the identifier of ones with 15 characters.
C26_Witness ==
    /\ txt.ops = <<"UnmarshalText">>
    /\ Len(txt.text) = 15
    /\ txt.orig.id = Ones
    /\ txt.id = Ones
    /\ txt.err = errInvalidDataSizeMsg
\* ------------------------------------------------------------------------
\* The accessors: what the reader was returned
\* ------------------------------------------------------------------------
Returned(op) == rd.pc = "done" /\ rd.op = op

\* The step in which the accessor returns.
Returns(op) == rd.pc # "done" /\ rd'.pc = "done" /\ rd'.op = op

\* The identifiers the log holds for time unit u, by their place in the log.
IssuedIn(u) == {j \in 1..Len(log) : IDUnits(log[j].id) = u}

\* The first identifier of time unit u opened it: it carries seqMin.
Opened(u) ==
    /\ IssuedIn(u) # {}
    /\ \E j \in IssuedIn(u) :
          /\ \A k \in IssuedIn(u) : j <= k
          /\ IDSequence(log[j].id) = g.seqMin

\* ------------------------------------------------------------------------
\* C27: Len() is at least 0 and at most Cap() = seqMax - seqMin + 1, also
\* while callers are stalled on overflow, and it is 0 when the clock read
\* differs from wallHi; Cap() never changes.
\* ------------------------------------------------------------------------
LenWithinCap ==
    /\ ~rd.ret.high
    /\ 0 <= rd.ret.v
    /\ rd.ret.v <= Cap(g)
    /\ rd.wallNow # rd.wallHi => rd.ret.v = 0

C27_LenWithinCap ==
    [][/\ Returns("Len") => LenWithinCap'
       /\ Cap(g') = Cap(g)]_vars

\* ------------------------------------------------------------------------
\* C29: Sequence() returns seqMin when the clock read differs from wallHi
\* and otherwise a value from seqMin to seqMax + seqOverflowCount, whatever
\* the callers of New are doing.
\* ------------------------------------------------------------------------
SequenceWithinOverflow ==
    IF rd.wallNow # rd.wallHi
    THEN rd.ret = g.seqMin
    ELSE /\ ~Uint32Gt(g.seqMin, rd.ret)
         /\ ~Uint32Gt(rd.ret, g.seqMax + g.seqOverflowCount)

C29_SequenceWithinOverflow ==
    [][Returns("Sequence") => SequenceWithinOverflow']_vars

\* ------------------------------------------------------------------------
\* C28: one goroutine, the clock held at one time unit: once New has issued
\* k identifiers in the unit, the first of them opening it, Len() returns
\* k, which is Cap() when the pool of the unit is used up.
\* ------------------------------------------------------------------------
LenCountsIssues ==
    rd.wallNow = clock /\ Opened(clock) =>
        /\ rd.ret = intValue(Cardinality(IssuedIn(clock)))
        /\ Cardinality(IssuedIn(clock)) <= Cap(g)

C28_LenCountsIssues == [][Returns("Len") => LenCountsIssues']_vars

\* Len() was read twice, the second time with the whole pool of the unit
\* issued.
C28_Witness ==
    /\ Returned("Len")
    /\ rd.wallNow = clock
    /\ Opened(clock)
    /\ Cardinality(IssuedIn(clock)) = Cap(g)
    /\ rd.ret.v = Cap(g)
    /\ rd.n = 2

\* ------------------------------------------------------------------------
\* C30: Snapshot() changes no state of the generator and returns its
\* partition, bounds, wallHi, wallSafe and drifts, the clock reading as Now,
\* and as Sequence seq when the clock reading equals wallHi and seqMin
\* otherwise.
\* ------------------------------------------------------------------------
SnapshotSamples ==
    /\ rd.ret.Partition = g.partition
    /\ rd.ret.SequenceMin = g.seqMin
    /\ rd.ret.SequenceMax = g.seqMax
    /\ rd.ret.WallHi = g.wallHi
    /\ rd.ret.WallSafe = g.wallSafe
    /\ rd.ret.Drifts = g.drifts
    /\ rd.ret.Now = rd.wallNow
    /\ rd.ret.Sequence = IF rd.wallNow = g.wallHi THEN g.seq ELSE g.seqMin

C30_SnapshotSamples ==
    [][/\ Returns("Snapshot") => SnapshotSamples'
       /\ rd' # rd /\ rd'.op = "Snapshot" => g' = g]_vars

\* A snapshot of a generator that tick-tocked and then issued in a later
\* time unit, taken in that unit.
C30_Witness ==
    /\ Returned("Snapshot")
    /\ rd.ret.Drifts = 1
    /\ rd.ret.WallSafe > 0
    /\ rd.ret.Now = rd.ret.WallHi
    /\ rd.ret.Sequence > g.seqMin
    /\ Len(log) > 1

\* ------------------------------------------------------------------------
\* C31: a restored generator has the snapshot's wallSafe, always; its wallHi
\* is the snapshot's unless the snapshot's wallSafe is not zero and greater
\* than the clock at construction, and is that clock reading then.
\* ------------------------------------------------------------------------
C31_RestoreRegressions ==
    Restored =>
        /\ g.wallSafe = ctor.arg.WallSafe
        /\ SafeAhead => g.wallHi = clock
        /\ ~SafeAhead => g.wallHi = ctor.arg.WallHi

\* Restored from a snapshot whose wallSafe is not zero and not ahead of the
\* clock: wallHi is the snapshot's, another time than the clock's.
C31_Witness ==
    /\ Restored
    /\ ctor.arg.WallSafe # 0
    /\ ctor.arg.WallSafe <= clock
    /\ ctor.arg.WallHi # clock
    /\ g.wallHi = ctor.arg.WallHi
    /\ g.wallSafe = ctor.arg.WallSafe

\* ------------------------------------------------------------------------
\* C32: NewGenerator rejects every snapshot with SequenceMax = SequenceMin
\* + 3, such as the bounds 0 and 3, with the pool-too-small error, and the
\* error carries the snapshot's SequenceMin and SequenceMax.
\* ------------------------------------------------------------------------
SpansFour == ctor.arg.SequenceMax = ctor.arg.SequenceMin + 3

AddedBefore(e, f) ==
    \/ e.wraps < f.wraps
    \/ e.wraps = f.wraps /\ Uint32Gt(f.n, e.n)

C33_ExhaustedStays ==
    \A i, j \in 1..Len(alloc.out) :
        /\ alloc.out[i].err = errPartitionPoolExhaustedMsg
        /\ AddedBefore(alloc.out[i], alloc.out[j])
        => alloc.out[j].err = errPartitionPoolExhaustedMsg

\* ------------------------------------------------------------------------
\* C34: at most one overflow watcher is alive; whenever seqOverflowCount is
\* above 0, seen with seqOverflowCond.L free, a watcher runs; and
\* seqOverflowCount is the number of callers inside the stall section,
\* never below 0.
\* ------------------------------------------------------------------------
WatcherAlive == w.pc # "off"

\* The goroutines between seqOverflowCount++ and seqOverflowCount--.
Stalling == {p \in Callers : c[p].pc = "wait"}

\* The ticker is set exactly while the watcher it was started with lives,
\* and a watcher is started only by the step that sets the ticker.
C34_OneWatcher ==
    [][/\ WatcherAlive <=> g.seqOverflowTicker
       /\ WatcherAlive' <=> g'.seqOverflowTicker
       /\ (w'.pc = "tick" /\ w.pc \notin {"wallHi", "broadcast", "tick"})
             => ~WatcherAlive /\ ~g.seqOverflowTicker
       /\ g.seqOverflowCount > 0 => WatcherAlive
       /\ g'.seqOverflowCount > 0 => WatcherAlive'
       /\ g'.seqOverflowCount = Cardinality(Stalling')
       /\ g'.seqOverflowCount >= 0]_vars

\* Two goroutines wait on the overflow while the watcher is past its first
\* tick.
C34_Witness ==
    /\ Cardinality(Stalling) = 2
    /\ g.seqOverflowCount = 2
    /\ w.pc \in {"seq", "wallHi", "store", "broadcast"}

\* ------------------------------------------------------------------------
\* C35: the watcher stops at the tick at which it finds seqOverflowCount 0,
\* and clears the ticker; so once seqOverflowCount is 0 and no caller
\* overflows any more the watcher ends; an overflow that finds no watcher
\* starts a fresh one.
\* ------------------------------------------------------------------------
\* The watcher's locked section of a tick.
WatcherLocks == w.pc = "lock" /\ w' # w

\* The step at which p, on overflow, takes seqOverflowCond.L.
Overflows(p) == c[p].pc = "overflow" /\ c'[p].pc # "overflow"

C35_WatcherEndsWhenDrained ==
    /\ [][WatcherLocks =>
             IF g.seqOverflowCount = 0
             THEN ~WatcherAlive' /\ ~g'.seqOverflowTicker
             ELSE WatcherAlive' /\ g'.seqOverflowTicker]_vars
    /\ [][\A p \in Callers :
             Overflows(p) /\ ~WatcherAlive =>
                 /\ w' = [WatcherOff EXCEPT !.pc = "tick"]
                 /\ g'.seqOverflowTicker]_vars
    /\ (WatcherAlive /\ g.seqOverflowCount = 0)
          ~> (~WatcherAlive \/ g.seqOverflowCount > 0)

\* The goroutine waits on its second overflow, six identifiers after the
\* first, with a watcher that has not ticked yet: the watcher that released
\* it the first time has ended.
C35_Witness ==
    /\ c[1].pc = "wait"
    /\ Len(log) >= 6
    /\ g.seqOverflowChan
    /\ w.pc = "tick"
    /\ w.ticks = 0

\* ------------------------------------------------------------------------
\* C36: with a notification channel the watcher attempts a publish at tick
\* t of the overflow exactly when a publish was dropped before, or
\* seqOverflowCount is 0, or t mod 4 = 1; while the channel takes every
\* message and callers are stalled that is once per 4 ticks (a notification
\* that follows one of a tick t with t mod 4 = 1, no publish dropped in
\* between, comes 4 ticks later), and the Ticks of the notifications of one
\* overflow start at 1 and strictly increase.
\* ------------------------------------------------------------------------
\* The number of the tick the watcher is about to count.
ThisTick == nextTicks(w.ticks)

\* The count read is the uint32 of the code, not a folded one.
Unfolded(t) == t < lim.fold - 3

\* The watcher's locked section of a tick in which the channel took the
\* notification.
Publishes == WatcherLocks /\ w'.took

C36_NotifyTicks ==
    [][/\ WatcherLocks =>
             (w'.tried <=> \/ w.retryNotify
                           \/ g.seqOverflowCount = 0
                           \/ ThisTick % 4 = 1)
       /\ Publishes /\ ~w.retryNotify /\ g.seqOverflowCount > 0
          /\ w.sent > 0 /\ w.last % 4 = 1 /\ Unfolded(ThisTick)
             => w'.last = AddUint32(AddUint32(AddUint32(AddUint32(w.last))))
       /\ Publishes /\ ~w.retryNotify /\ w.sent = 0 => w'.last = 1
       /\ Publishes /\ w.sent > 0 /\ Unfolded(ThisTick)
             => Uint32Gt(w'.last, w.last)]_vars


\* ------------------------------------------------------------------------
\* C37: with a clock that never moves backwards, under every interleaving of
\* concurrent New callers, the number of identifiers returned with one
\* timestamp never exceeds the capacity seqMax - seqMin + 1.
\* ------------------------------------------------------------------------
\* The clock never read lower than before, the time the generator's snapshot
\* was taken at included.
ForwardOnly == regs = 0 /\ ~lim.ahead

C37_TimeframeWithinPool ==
    ForwardOnly =>
        \A i \in 1..Len(log) :
            Cardinality(IssuedIn(IDUnits(log[i].id))) <= g.seqMax - g.seqMin + 1


\* ------------------------------------------------------------------------
\* C39: drifts counts accepted clock regressions only: with a clock that
\* never moves backwards, under every interleaving of concurrent New
\* callers, drifts keeps its initial value and every identifier carries the
\* same tick-tock bit.
\* ------------------------------------------------------------------------
C39_NoDriftOnForwardClock ==
    ForwardOnly =>
        /\ g.drifts = 0
        /\ \A i \in 1..Len(log) : IDTickTock(log[i].id) = 0


\* ------------------------------------------------------------------------
\* C38: wallSafe never decreases: it is written only when a regression is
\* accepted, by the goroutine that holds the regression lock, and then to
\* the wallHi that is abandoned, which is strictly greater than the previous
\* wallSafe; so wallSafe is always the highest wallHi abandoned so far (each
\* wallHi abandoned for a lower one is the wallSafe just written).
\* ------------------------------------------------------------------------
\* wallHi is set back to a lower time: the higher one is abandoned.
AbandonsWallHi == g'.wallHi < g.wallHi

C38_WallSafeHighestAbandoned ==
    [][/\ g'.wallSafe >= g.wallSafe
       /\ g'.wallSafe # g.wallSafe
             => \E p \in Callers :
                   /\ c[p].pc = "driftSafe"
                   /\ g.regression = p
                   /\ g'.wallSafe > g.wallSafe
       /\ AbandonsWallHi => g.wallSafe = g.wallHi]_vars


\* ------------------------------------------------------------------------
\* C40: a New call that finds wallNow < wallHi and wallNow <= wallSafe (a
\* deep regression) changes none of wallHi, wallSafe, seq and drifts and
\* returns nothing before it starts over; the identifier it returns in the
\* end carries the tick-tock bit of the identifier before the regression.
\* ------------------------------------------------------------------------
\* Goroutine p finds the deep regression, or wakes from its sleep.
FindsDeep(p) == c[p].pc # "sleep" /\ c'[p].pc = "sleep"
Wakes(p) == c[p].pc = "sleep" /\ c'[p].pc # "sleep"

\* The steps of a deep-regressed call leave the generator's times and
\* counters alone and return nothing.
DeepFrame ==
    \A p \in Callers :
        FindsDeep(p) \/ Wakes(p)
            => /\ g'.wallHi = g.wallHi
               /\ g'.wallSafe = g.wallSafe
               /\ g'.seq = g.seq
               /\ g'.drifts = g.drifts
               /\ log' = log

\* Goroutine p, whose call slept in a deep regression and was not the
\* generator's first, returns an identifier.
SleeperReturns(p) ==
    /\ c[p].slept # {}
    /\ c[p].start > 0
    /\ c[p].pc # "idle"
    /\ c'[p].pc = "idle"

\* The tick-tock bits of the identifier just returned and of the last one
\* returned before goroutine p's call started.
BitReturned == IDTickTock(log'[Len(log')].id)
BitBefore(p) == IDTickTock(log[c[p].start].id)

====
